---- MODULE Spec2Model ----
(***************************************************************************)
(* RepoAnalyser: the repository content collector (githubService.ts), the  *)
(* App state machine that drives it (App.tsx) and the analysis call.       *)
(*                                                                         *)
(* Strings are TLA+ strings handled with Len, SubSeq and \o; sizes are     *)
(* bytes.  The remote repository (the tree, the outcome of every request)  *)
(* is the environment: it is drawn at Init and never changes.              *)
(***************************************************************************)
EXTENDS Integers, Sequences, FiniteSets, TLC

(***************************************************************************)
(* String primitives (JavaScript String methods used by the source).       *)
(***************************************************************************)
UpperChars == "ABCDEFGHIJKLMNOPQRSTUVWXYZ"
LowerChars == "abcdefghijklmnopqrstuvwxyz"

CharAt(s, i) == SubSeq(s, i, i)

UpperSet == {CharAt(UpperChars, k) : k \in 1..26}
LowerOf == [c \in UpperSet |-> CharAt(LowerChars, CHOOSE k \in 1..26 : CharAt(UpperChars, k) = c)]
LowerChar(c) == IF c \in UpperSet THEN LowerOf[c] ELSE c

RECURSIVE toLowerCase(_)
toLowerCase(s) ==
  IF Len(s) = 0 THEN "" ELSE LowerChar(CharAt(s, 1)) \o toLowerCase(SubSeq(s, 2, Len(s)))

\* s.startsWith(p) / s.endsWith(p) / s.includes(p)
StartsWith(s, p) == Len(p) <= Len(s) /\ SubSeq(s, 1, Len(p)) = p
EndsWith(s, p) == Len(p) <= Len(s) /\ SubSeq(s, Len(s) - Len(p) + 1, Len(s)) = p
Includes(s, p) == \E i \in 1..(Len(s) - Len(p) + 1) : SubSeq(s, i, i + Len(p) - 1) = p

\* s.indexOf(c): 1-based position of the first occurrence of the character c, 0 if none
IndexOf(s, c) ==
  LET at == {i \in 1..Len(s) : CharAt(s, i) = c}
  IN IF at = {} THEN 0 ELSE CHOOSE i \in at : \A j \in at : i <= j

\* s.lastIndexOf(c): 1-based position of the last occurrence, 0 if none (-1 in JS)
LastIndexOf(s, c) ==
  LET at == {i \in 1..Len(s) : CharAt(s, i) = c}
  IN IF at = {} THEN 0 ELSE CHOOSE i \in at : \A j \in at : i >= j

\* s.split(sep) for a one-character separator
RECURSIVE Split(_, _)
Split(s, sep) ==
  LET k == IndexOf(s, sep)
  IN IF k = 0 THEN <<s>>
     ELSE <<SubSeq(s, 1, k - 1)>> \o Split(SubSeq(s, k + 1, Len(s)), sep)

\* path.substring(path.lastIndexOf('.')): from the last dot to the end; the whole
\* string when there is no dot (substring(-1) is substring(0))
ExtOf(path) ==
  LET k == LastIndexOf(path, ".")
  IN IF k = 0 THEN path ELSE SubSeq(path, k, Len(path))

Range(s) == {s[i] : i \in 1..Len(s)}

(***************************************************************************)
(* Constants of githubService.ts.                                          *)
(***************************************************************************)
MAX_FILE_SIZE == 1024 * 1024
MAX_TOTAL_CODE_SIZE == 10 * 1024 * 1024
MAX_FILES_TO_ANALYZE == 500

SKIP_EXTENSIONS ==
  { ".png", ".jpg", ".jpeg", ".gif", ".svg", ".ico", ".webp", ".bmp",
    ".pdf", ".zip", ".tar", ".gz", ".rar", ".7z",
    ".exe", ".dll", ".so", ".dylib", ".bin",
    ".woff", ".woff2", ".ttf", ".eot",
    ".mp4", ".mp3", ".avi", ".mov", ".wmv",
    ".pyc", ".pyo", ".class", ".jar", ".war",
    ".min.js", ".min.css", ".bundle.js",
    ".lock", ".log", ".cache" }

SKIP_DIRECTORIES ==
  { "node_modules", ".git", "dist", "build", ".next", "out",
    "coverage", ".nyc_output", ".cache", ".vscode", ".idea",
    "vendor", "__pycache__", ".pytest_cache", ".mypy_cache",
    "target", ".gradle", "venv", "env", ".venv",
    "bower_components", ".sass-cache", ".parcel-cache" }

\* A regular expression of the source is one of three shapes, all with the i flag:
\*   /^(a|b|...)/   a prefix,  /(a|b|...)$/  a suffix,  /^(a|b|...)$/  the whole string.
PrefixRe(alts) == [kind |-> "prefix", alts |-> alts]
SuffixRe(alts) == [kind |-> "suffix", alts |-> alts]
WholeRe(alts) == [kind |-> "whole", alts |-> alts]

\* Does the pattern match the string p, already in lower case?
Matches(pattern, p) ==
  CASE pattern.kind = "prefix" -> \E a \in pattern.alts : StartsWith(p, a)
    [] pattern.kind = "suffix" -> \E a \in pattern.alts : EndsWith(p, a)
    [] pattern.kind = "whole" -> p \in pattern.alts

SourceExts == {"ts", "tsx", "js", "jsx", "py", "java", "go", "rs", "rb", "php",
               "cs", "cpp", "c", "h", "swift", "kt", "scala"}
TestExts == {"js", "ts", "jsx", "tsx", "py", "java", "go", "rb"}

HIGH_PRIORITY_PATTERNS ==
  << PrefixRe({"src", "lib", "app", "components", "pages", "routes", "controllers",
               "services", "models", "utils", "helpers"}),
     SuffixRe({"." \o e : e \in SourceExts}),
     WholeRe({"package.json", "requirements.txt", "pom.xml", "build.gradle",
              "cargo.toml", "go.mod", "gemfile", "composer.json"}),
     WholeRe({"dockerfile", "docker-compose", ".env.example", ".gitignore",
              ".eslintrc", ".prettierrc"}) >>

CONFIG_PATTERNS ==
  << PrefixRe({"package.json", "tsconfig", "webpack", "vite", "rollup", "babel", "eslint",
               "prettier", "jest", "vitest", "cypress", "playwright"}),
     SuffixRe({".config", ".conf", ".ini", ".yaml", ".yml", ".toml", ".json"}),
     WholeRe({"dockerfile", "docker-compose", ".env", ".gitignore", ".npmrc", ".nvmrc"}) >>

TEST_PATTERNS ==
  << SuffixRe({t \o "." \o e : t \in {"test", "spec"}, e \in TestExts}),
     SuffixRe({"." \o t \o "." \o e : t \in {"test", "spec"}, e \in TestExts}),
     PrefixRe({"test", "spec", "tests", "__tests__", "__spec__"}) >>

DOC_PATTERNS ==
  << PrefixRe({"readme", "changelog", "contributing", "license", "authors", "credits"}),
     SuffixRe({".md", ".txt", ".rst", ".adoc"}) >>

\* patterns.some(pattern => pattern.test(path))
SomeTest(patterns, path) ==
  LET p == toLowerCase(path)
  IN \E i \in 1..Len(patterns) : Matches(patterns[i], p)

(***************************************************************************)
(* Pure helpers of githubService.ts.                                       *)
(***************************************************************************)
\* parseGithubUrl: new URL(url) throws unless the string has a scheme followed by
\* "://"; hostname is the authority without userinfo and port, in lower case;
\* pathname ends at the first "?" or "#".  NULL stands for null; the nullable values
\* of the program are records.
NULL == [null |-> TRUE]

MinOf(S) == CHOOSE x \in S : \A y \in S : x <= y
MaxOf(S) == CHOOSE x \in S : \A y \in S : x >= y

\* s.trim(); the URL parser strips the same leading and trailing spaces
RECURSIVE Trim(_)
Trim(s) ==
  IF Len(s) = 0 THEN s
  ELSE IF CharAt(s, 1) = " " THEN Trim(SubSeq(s, 2, Len(s)))
  ELSE IF CharAt(s, Len(s)) = " " THEN Trim(SubSeq(s, 1, Len(s) - 1))
  ELSE s

\* the position of the first "://" of the string, 0 if there is none
UrlScheme(url) ==
  LET at == {i \in 1..(Len(url) - 2) : SubSeq(url, i, i + 2) = "://"}
  IN IF at = {} THEN 0 ELSE MinOf(at)

\* the position of the first character of s that is one of the characters of stops,
\* Len(s) + 1 if there is none
FirstOf(s, stops) ==
  LET at == {i \in 1..Len(s) : \E k \in 1..Len(stops) : CharAt(stops, k) = CharAt(s, i)}
  IN IF at = {} THEN Len(s) + 1 ELSE MinOf(at)

\* what follows the "://" of the URL
UrlRest(url) == SubSeq(url, UrlScheme(url) + 3, Len(url))

UrlHostname(url) ==
  LET rest == UrlRest(url)
      auth == SubSeq(rest, 1, FirstOf(rest, "/?#") - 1)
      at == LastIndexOf(auth, "@")
      hostport == SubSeq(auth, at + 1, Len(auth))
  IN toLowerCase(SubSeq(hostport, 1, FirstOf(hostport, ":") - 1))

\* The segments of a path with the dot segments resolved: "." names the segment
\* before it, ".." removes it
RECURSIVE RemoveDots(_, _)
RemoveDots(segments, done) ==
  IF segments = <<>> THEN done
  ELSE LET seg == Head(segments)
           last == Len(segments) = 1
       IN IF seg = "."
          THEN RemoveDots(Tail(segments), IF last THEN Append(done, "") ELSE done)
          ELSE IF seg = ".."
          THEN LET up == IF done = <<>> THEN done ELSE SubSeq(done, 1, Len(done) - 1)
               IN RemoveDots(Tail(segments), IF last THEN Append(up, "") ELSE up)
          ELSE RemoveDots(Tail(segments), Append(done, seg))

RECURSIVE Join(_, _)
Join(parts, sep) ==
  IF parts = <<>> THEN ""
  ELSE IF Len(parts) = 1 THEN parts[1]
  ELSE parts[1] \o sep \o Join(Tail(parts), sep)

UrlPathname(url) ==
  LET rest == UrlRest(url)
      tail == SubSeq(rest, FirstOf(rest, "/?#"), Len(rest))
      path == SubSeq(tail, 1, FirstOf(tail, "?#") - 1)
  IN IF path = "" THEN "/"
     ELSE "/" \o Join(RemoveDots(Tail(Split(path, "/")), <<>>), "/")

\* Mutant of parseGithubUrl: the hostname is not compared with github.com
parseGithubUrlAnyHost(url) ==
  LET input == Trim(url)
      parts == SelectSeq(Split(UrlPathname(input), "/"), LAMBDA x : x # "")
  IN IF UrlScheme(input) <= 1 \/ UrlHostname(input) = "" THEN NULL
     ELSE IF Len(parts) < 2 THEN NULL
     ELSE [owner |-> parts[1], repo |-> parts[2]]

\* Mutant of parseGithubUrl: one path segment is enough, and names both
parseGithubUrlOneSegment(url) ==
  LET input == Trim(url)
      parts == SelectSeq(Split(UrlPathname(input), "/"), LAMBDA x : x # "")
  IN IF UrlScheme(input) <= 1 \/ UrlHostname(input) # "github.com" THEN NULL
     ELSE IF Len(parts) < 1 THEN NULL
     ELSE [owner |-> parts[1], repo |-> parts[Len(parts)]]

\* new URL(url) throws on a string without a scheme or without a host; the inputs
\* are of the form scheme://authority/path?query#fragment with an http(s) scheme
parseGithubUrl(url) ==
  LET input == Trim(url)
      hostname == UrlHostname(input)
  IN IF UrlScheme(input) <= 1 \/ hostname = "" THEN NULL
     ELSE IF hostname # "github.com" THEN NULL
     ELSE LET parts == SelectSeq(Split(UrlPathname(input), "/"), LAMBDA x : x # "")
          IN IF Len(parts) < 2 THEN NULL
             ELSE [owner |-> parts[1], repo |-> parts[2]]

\* Mutant of shouldSkipFile: the directory rule is left out
shouldSkipFileAnyDirectory(path, size) ==
  LET ext == toLowerCase(ExtOf(path))
  IN IF size > MAX_FILE_SIZE THEN TRUE
     ELSE IF ext \in SKIP_EXTENSIONS THEN TRUE
     ELSE IF Includes(path, ".min.") \/ Includes(path, ".bundle.") \/ Includes(path, ".chunk.")
          THEN TRUE
     ELSE FALSE

\* Mutant of shouldSkipFile: the size rule is off by one
shouldSkipFileOffByOne(path, size) ==
  LET pathParts == Split(toLowerCase(path), "/")
      ext == toLowerCase(ExtOf(path))
  IN IF size > MAX_FILE_SIZE + 1 THEN TRUE
     ELSE IF \E part \in Range(pathParts) : part \in SKIP_DIRECTORIES THEN TRUE
     ELSE IF ext \in SKIP_EXTENSIONS THEN TRUE
     ELSE IF Includes(path, ".min.") \/ Includes(path, ".bundle.") \/ Includes(path, ".chunk.")
          THEN TRUE
     ELSE FALSE

shouldSkipFile(path, size) ==
  LET pathParts == Split(toLowerCase(path), "/")
      ext == toLowerCase(ExtOf(path))
  IN IF size > MAX_FILE_SIZE THEN TRUE
     ELSE IF \E part \in Range(pathParts) : part \in SKIP_DIRECTORIES THEN TRUE
     ELSE IF ext \in SKIP_EXTENSIONS THEN TRUE
     ELSE IF Includes(path, ".min.") \/ Includes(path, ".bundle.") \/ Includes(path, ".chunk.")
          THEN TRUE
     ELSE FALSE

\* Mutant of getFilePriority: the config and documentation rules are tried first
getFilePriorityMediumFirst(path) ==
  IF SomeTest(CONFIG_PATTERNS, path) \/ SomeTest(DOC_PATTERNS, path) THEN "medium"
  ELSE IF SomeTest(HIGH_PRIORITY_PATTERNS, path) THEN "high"
  ELSE "low"

getFilePriority(path) ==
  IF SomeTest(HIGH_PRIORITY_PATTERNS, path) THEN "high"
  ELSE IF SomeTest(CONFIG_PATTERNS, path) \/ SomeTest(DOC_PATTERNS, path) THEN "medium"
  ELSE "low"

isTestFile(path) == SomeTest(TEST_PATTERNS, path)
isConfigFile(path) == SomeTest(CONFIG_PATTERNS, path)
isDocumentationFile(path) == SomeTest(DOC_PATTERNS, path)

langMap ==
  [e \in {".ts", ".tsx", ".js", ".jsx", ".py", ".java", ".go", ".rs", ".rb", ".php", ".cs",
          ".cpp", ".c", ".swift", ".kt", ".scala", ".html", ".css", ".scss", ".sass",
          ".json", ".yaml", ".yml", ".xml", ".md", ".sh", ".sql"} |->
     CASE e \in {".ts", ".tsx"} -> "TypeScript"
       [] e \in {".js", ".jsx"} -> "JavaScript"
       [] e = ".py" -> "Python" [] e = ".java" -> "Java" [] e = ".go" -> "Go"
       [] e = ".rs" -> "Rust" [] e = ".rb" -> "Ruby" [] e = ".php" -> "PHP"
       [] e = ".cs" -> "C#" [] e = ".cpp" -> "C++" [] e = ".c" -> "C"
       [] e = ".swift" -> "Swift" [] e = ".kt" -> "Kotlin" [] e = ".scala" -> "Scala"
       [] e = ".html" -> "HTML" [] e = ".css" -> "CSS" [] e = ".scss" -> "SCSS"
       [] e = ".sass" -> "SASS" [] e = ".json" -> "JSON"
       [] e \in {".yaml", ".yml"} -> "YAML" [] e = ".xml" -> "XML"
       [] e = ".md" -> "Markdown" [] e = ".sh" -> "Shell" [] e = ".sql" -> "SQL"]

detectLanguage(path) ==
  LET ext == toLowerCase(ExtOf(path))
  IN IF ext \in DOMAIN langMap THEN langMap[ext] ELSE "undefined"

\* files.reduce((sum, f) => sum + f.size, 0)
RECURSIVE SumSizes(_, _, _)
SumSizes(files, lo, hi) ==
  IF lo > hi THEN 0
  ELSE IF lo = hi THEN files[lo].size
  ELSE LET mid == (lo + hi) \div 2
       IN SumSizes(files, lo, mid) + SumSizes(files, mid + 1, hi)

TotalSize(files) == SumSizes(files, 1, Len(files))

\* allCodeFiles.sort((a, b) => priorityOrder[a.priority] - priorityOrder[b.priority]):
\* Array.prototype.sort is stable, so the result is the files of rank 0 in their
\* order, then those of rank 1, then those of rank 2.
priorityOrder == [high |-> 0, medium |-> 1, low |-> 2]

\* Mutant of SortByPriority: the files are left in the order of the walk
SortByPriorityUnsorted(files) == files

\* Mutant of SortByPriority: the comparator subtracts the other way round
SortByPriorityDescending(files) ==
  SelectSeq(files, LAMBDA f : priorityOrder[f.priority] = 2)
    \o SelectSeq(files, LAMBDA f : priorityOrder[f.priority] = 1)
    \o SelectSeq(files, LAMBDA f : priorityOrder[f.priority] = 0)

SortByPriority(files) ==
  SelectSeq(files, LAMBDA f : priorityOrder[f.priority] = 0)
    \o SelectSeq(files, LAMBDA f : priorityOrder[f.priority] = 1)
    \o SelectSeq(files, LAMBDA f : priorityOrder[f.priority] = 2)

\* Mutant of Slice: the truncation is left out
SliceAll(s, n) == s

\* array.slice(0, n)
Slice(s, n) == SubSeq(s, 1, IF Len(s) < n THEN Len(s) ELSE n)

(***************************************************************************)
(* The remote repository.  An entry of a directory listing is a file, a    *)
(* directory or another type (symlink, submodule).  A file entry carries   *)
(* what its content request answers: the HTTP status (0: the request is    *)
(* rejected, no response) and the base64 body.  A directory entry carries  *)
(* the status of its listing request and the entries it lists.             *)
(***************************************************************************)
\* btoa of a text of n characters: 4 base64 characters for every 3 characters,
\* the last group padded with "="
Btoa(n) == [len |-> 4 * ((n + 2) \div 3), pad |-> (3 - (n % 3)) % 3]

\* A body that is not base64: its length is not a multiple of 4
BadBase64 == [len |-> 5, pad |-> 0]

\* atob(content.replace(/\s/g, '')): the decoded text, modelled by its number of
\* characters; -1 stands for the exception atob throws on input that is not base64
Atob(b) == IF b.len % 4 # 0 THEN -1 ELSE (b.len \div 4) * 3 - b.pad

FileWith(name, size, status, content) ==
  [type |-> "file", name |-> name, size |-> size, status |-> status, content |-> content]
File(name, size) == FileWith(name, size, 200, Btoa(size))
DirWith(name, status, children) ==
  [type |-> "dir", name |-> name, status |-> status, children |-> children]
Dir(name, children) == DirWith(name, 200, children)
Other(name) == [type |-> "symlink", name |-> name, size |-> 0]

\* Sequences over a set, of length at most n
SeqsUpTo(S, n) == UNION {[1..k -> S] : k \in 0..n}

KB == 1024

\* Files of every kind the admission filter and the fetcher tell apart
FilePool ==
  { File("app.ts", 2 * KB),                       \* accepted, high
    File("README.md", KB),                        \* accepted, medium, documentation
    File("notes", 10),                            \* accepted, low
    File("style.css", 300),                       \* accepted, low
    File("bundle.min.js", 500 * KB),              \* rejected: .min. substring
    File("logo.PNG", 100),                        \* rejected: extension
    File("Build", 10),                            \* rejected: skip-listed segment
    File("huge.ts", MAX_FILE_SIZE + 1),           \* rejected: size
    File("max.ts", MAX_FILE_SIZE),                \* accepted: exactly the ceiling
    FileWith("api.py", 300, 404, Btoa(300)),      \* content request: 404
    FileWith("net.rb", 300, 0, Btoa(300)),        \* content request rejected
    FileWith("empty.txt", 0, 200, Btoa(0)),       \* empty content
    FileWith("bad.go", 20, 200, BadBase64),       \* body is not base64
    Other("link") }

CoreFiles ==
  { File("app.ts", 2 * KB), File("README.md", KB), File("bundle.min.js", 500 * KB),
    FileWith("api.py", 300, 404, Btoa(300)) }

\* Bounds of the repositories drawn at Init
MaxFlat == 2
MaxNodes == 3
MaxTail == 2
BulkOver == 1

FlatTrees == SeqsUpTo(FilePool, MaxFlat)

\* Listings of exactly n entries in all, over CoreFiles and the directories
\* src (listing answers 200), Dist (skip-listed) and docs (listing answers 404)
RECURSIVE Forests(_)
Forests(n) ==
  IF n = 0 THEN {<<>>}
  ELSE {<<f>> \o rest : f \in CoreFiles, rest \in Forests(n - 1)}
       \cup UNION { UNION { {<<d>> \o rest :
                               d \in {Dir("src", ch), Dir("Dist", ch), DirWith("docs", 404, ch)},
                               rest \in Forests(n - 1 - k)} :
                            ch \in Forests(k) } :
                    k \in 0..(n - 1) }

NestedTrees == UNION {Forests(n) : n \in 0..MaxNodes}

\* Bulk files f<i>.ts, f<i>.md, f<i>.css of the given size, numbered from+1..from+n
BulkFile(i, size) ==
  File("f" \o ToString(i) \o (CASE i % 3 = 0 -> ".ts" [] i % 3 = 1 -> ".md" [] OTHER -> ".css"),
       size)
Bulk(from, n, size) == [i \in 1..n |-> BulkFile(from + i, size)]

\* Repositories at the count ceiling: MAX_FILES_TO_ANALYZE - 1 files of 1 KB, at
\* the root or in a directory, followed by a short tail
CountTail == { File("app.ts", 2 * KB), Dir("lib", Bulk(1000, 2, KB)) }
CountTrees ==
  {Bulk(0, MAX_FILES_TO_ANALYZE - 1, KB) \o tail : tail \in SeqsUpTo(CountTail, MaxTail)}
  \cup {<<Dir("src", Bulk(0, MAX_FILES_TO_ANALYZE - 1, KB))>> \o tail :
          tail \in SeqsUpTo(CountTail, MaxTail)}
  \cup {Bulk(0, MAX_FILES_TO_ANALYZE + k, KB) : k \in 0..BulkOver}
  \cup {Bulk(0, 600, KB)}

\* Repositories at the size ceiling: 9 files of 1 MiB followed by a short tail
SizeTail ==
  { File("max.ts", MAX_FILE_SIZE), File("half.ts", MAX_FILE_SIZE \div 2),
    File("app.ts", 2 * KB), Dir("lib", <<File("max.ts", MAX_FILE_SIZE)>>),
    DirWith("docs", 404, <<>>) }
SizeTrees ==
  {Bulk(0, 9, MAX_FILE_SIZE) \o tail : tail \in SeqsUpTo(SizeTail, MaxTail + 1)}

\* A repository with src/app.ts (2 KB), README.md (1 KB) and dist/bundle.min.js
\* (500 KB), its root listed in three orders
ScenarioA ==
  LET src == Dir("src", <<File("app.ts", 2 * KB)>>)
      readme == File("README.md", KB)
      dist == Dir("dist", <<File("bundle.min.js", 500 * KB)>>)
  IN {<<readme, dist, src>>, <<src, readme, dist>>, <<dist, src, readme>>}

\* A monorepo: a manifest at the root, one in frontend/ and a Dockerfile in backend/
ManifestTree ==
  << File("package.json", KB),
     Dir("frontend", <<File("package.json", KB), File("main.ts", KB)>>),
     Dir("backend", <<File("Dockerfile", 300), File("go.mod", 200)>>) >>

\* A repository whose code block overflows: PromptFiles bulk files of 3 KB, a third
\* of them high and a third medium, then a config file and a test file
PromptFiles == 150
PromptTree ==
  Bulk(0, PromptFiles, 3 * KB)
    \o <<File("tsconfig.json", 3 * KB), File("test_data.css", 3 * KB)>>

\* A repository of directories d1/d2/.../d<DeepLevels>, one in the other, each with
\* a file beside the next directory
DeepLevels == 7
RECURSIVE Chain(_)
Chain(k) ==
  IF k > DeepLevels THEN <<File("leaf.ts", KB)>>
  ELSE <<File("f" \o ToString(k) \o ".ts", KB), Dir("d" \o ToString(k), Chain(k + 1))>>
DeepTree == Chain(1)

Trees ==
  FlatTrees \cup NestedTrees \cup CountTrees \cup SizeTrees \cup ScenarioA
    \cup {DeepTree, ManifestTree, PromptTree}

\* The outcome of every request that is not about the tree: the HTTP status of the
\* metadata, README, languages, root listing, commits, branches and pull-request
\* requests (0: rejected), and of the analysis call
Statuses == {200, 404, 403, 500, 0}
StatusText(st) == CASE st = 404 -> "Not Found" [] st = 403 -> "Forbidden"
                    [] st = 500 -> "Internal Server Error" [] OTHER -> ""
AllOk == [tree |-> <<>>, meta |-> 200, readme |-> 200, languages |-> 200, rootStatus |-> 200,
          commits |-> 200, branches |-> 200, pulls |-> 200, gemini |-> "ok"]
SampleTree == <<File("README.md", KB), Dir("src", <<File("app.ts", 2 * KB)>>)>>

Servers ==
  {[AllOk EXCEPT !.tree = t] : t \in Trees}
  \cup {[AllOk EXCEPT !.tree = SampleTree, !.meta = st] : st \in Statuses}
  \cup [tree : {SampleTree}, meta : {200}, readme : {200, 404}, languages : {200, 0},
        rootStatus : {200, 403}, commits : {200, 500}, branches : {200, 404},
        pulls : {200, 0}, gemini : {"ok", "error", "nokey"}]

\* What the user may type in the input box
Urls == { "https://github.com/owner/repo", "https://github.com/owner/repo/tree/main",
          "https://github.com/onlyowner", "github.com/owner/repo",
          "https://gitlab.com/owner/repo", " ",
          "https://GitHub.com/owner/repo", "http://github.com/owner/repo/",
          "https://github.com//owner//repo", "https://github.com/owner/repo?tab=readme#top",
          "https://user@github.com:443/owner/repo", " https://github.com/owner/repo ",
          "https://www.github.com/owner/repo", "https://github.com.evil.com/owner/repo",
          "https://github.com/", "https://github.com/owner/", "https://github.com?a=/owner/repo",
          "https://github.com/owner/../repo", "owner/repo" }

\* What the user types in a behaviour: any of the inputs when the repository is the
\* sample one and every request succeeds, a well-formed and a malformed one otherwise
Typed(srv) ==
  IF srv = [AllOk EXCEPT !.tree = SampleTree] THEN Urls
  ELSE {"https://github.com/owner/repo", "https://github.com/onlyowner"}

\* parseGithubUrl on each of them, computed once
ParsedUrl == [url \in Urls |-> parseGithubUrl(url)]

(***************************************************************************)
(* State.                                                                  *)
(***************************************************************************)
VARIABLES
  server,     \* the remote repository and the outcome of each request (environment)
  status,     \* App: AnalysisStatus
  repoData,   \* App: RepoMetadata | null
  analysis,   \* App: AnalysisResult | null
  error,      \* App: string | null
  pc,         \* the await at which handleAnalyze / fetchRepoData is suspended
  locals,     \* fetchRepoData: its local variables
  sstack,     \* fetchFileStructureRecursive: the call stack, innermost call last
  stack,      \* fetchAllFilesRecursive: the call stack, innermost call last
  requests,   \* history: the requests issued by the current run, in order
  walked,     \* history: the array the root fetchAllFilesRecursive returned, before
              \* fetchRepoData sorts it in place
  inputUrl,   \* RepoInput: the text of the input box ("" while it is not rendered)
  pending,    \* the requests issued and not yet answered, oldest first
  ceilingHit, \* history: a ceiling has triggered in the content walk of this run
  codeContentForAnalysis,
              \* analyzeRepository: the sections of the code block of the prompt
  runs        \* invocations of fetchAllFilesRecursive made side by side, outside the
              \* App (none in the App, which makes one at a time)

vars == <<server, status, repoData, analysis, error, pc, locals, sstack, stack, requests,
          walked, inputUrl, pending, ceilingHit, codeContentForAnalysis, runs>>

IDLE == "IDLE"
FETCHING_GITHUB == "FETCHING_GITHUB"
ANALYZING_GEMINI == "ANALYZING_GEMINI"
COMPLETE == "COMPLETE"
ERROR == "ERROR"

NoLocals == [owner |-> "", repo |-> "", readmeContent |-> NULL, languages |-> {},
             fileStructure |-> <<>>, totalFiles |-> 0, codeFiles |-> <<>>,
             totalCodeSize |-> 0, filesSkipped |-> 0, commits |-> <<>>,
             branches |-> <<>>]

\* A request: what it asks for, the path it is about, and for a file-content
\* request the size the listing declared
Req(kind, path) == [kind |-> kind, path |-> path, size |-> 0]
FileReq(item) == [kind |-> "file", path |-> item.path, size |-> item.size]

Init ==
  /\ server \in Servers
  /\ status = IDLE
  /\ repoData = NULL
  /\ analysis = NULL
  /\ error = NULL
  /\ pc = "idle"
  /\ locals = NoLocals
  /\ sstack = <<>>
  /\ stack = <<>>
  /\ requests = <<>>
  /\ walked = <<>>
  /\ inputUrl = ""
  /\ pending = <<>>
  /\ ceilingHit = FALSE
  /\ codeContentForAnalysis = <<>>
  /\ runs = <<>>

\* The body of a directory-listing response: every entry with its path
ItemPath(dirPath, name) == IF dirPath = "" THEN name ELSE dirPath \o "/" \o name
WithPath(entry, path) == [path |-> path] @@ entry
\* What the server answers to the listing request of a path: the status, and the
\* entries of the directory the path names
NodeOf(item) == [status |-> item.status, children |-> item.children]
RootNode == [status |-> server.rootStatus, children |-> server.tree]
RECURSIVE Descend(_, _)
Descend(node, parts) ==
  IF parts = <<>> THEN node
  ELSE LET named == {k \in 1..Len(node.children) :
                       /\ node.children[k].type = "dir"
                       /\ node.children[k].name = Head(parts)}
       IN Descend(NodeOf(node.children[MinOf(named)]), Tail(parts))
Listing(path) == IF path = "" THEN RootNode ELSE Descend(RootNode, Split(path, "/"))

\* The entries of the listing response a call received, and its k-th entry
Contents(f) == Listing(f.path).children
Entry(f, k) == WithPath(Contents(f)[k], ItemPath(f.path, Contents(f)[k].name))

Top(stk) == stk[Len(stk)]
Pop(stk) == SubSeq(stk, 1, Len(stk) - 1)

(***************************************************************************)
(* App.tsx: handleAnalyze up to its first await, and handleReset.          *)
(***************************************************************************)
\* The error state holds a string
Message(text) == [message |-> text]

\* Mutant of Fail: the catch block records the message and leaves the status alone
FailSilently(message) ==
  /\ error' = Message(IF message = "" THEN "An unexpected error occurred." ELSE message)
  /\ status' = status
  /\ pc' = "idle"

\* handleAnalyze, the catch block
\* Mutant of Fail: the catch block records the message and shows the dashboard
FailComplete(message) ==
  /\ error' = Message(IF message = "" THEN "An unexpected error occurred." ELSE message)
  /\ status' = COMPLETE
  /\ pc' = "idle"

Fail(message) ==
  /\ error' = Message(IF message = "" THEN "An unexpected error occurred." ELSE message)
  /\ status' = ERROR
  /\ pc' = "idle"

\* RepoInput.handleSubmit -> handleAnalyze(url): parse, then call fetchRepoData,
\* which issues the metadata request
HandleAnalyze(url) ==
  /\ status = IDLE
  /\ Trim(url) # ""
  /\ LET repoInfo == ParsedUrl[url]
     IN IF repoInfo = NULL
        THEN /\ error' = Message("Invalid GitHub URL. Please use format: https://github.com/owner/repo")
             /\ status' = IDLE
             /\ requests' = <<>>
             /\ pending' = <<>>
             /\ UNCHANGED <<pc, locals, walked, inputUrl, ceilingHit, codeContentForAnalysis>>
        ELSE /\ error' = NULL
             /\ status' = FETCHING_GITHUB
             /\ pc' = "meta"
             /\ locals' = [NoLocals EXCEPT !.owner = repoInfo.owner, !.repo = repoInfo.repo]
             /\ requests' = <<Req("meta", "")>>
             /\ pending' = <<Req("meta", "")>>
             /\ walked' = <<>>
             /\ inputUrl' = ""
             /\ ceilingHit' = FALSE
             /\ codeContentForAnalysis' = <<>>
  /\ UNCHANGED <<server, runs, repoData, analysis, sstack, stack>>

\* RepoInput: the user edits the text of the input box (onChange -> setUrl)
SetUrl(text) ==
  /\ status = IDLE
  /\ inputUrl' = text
  /\ UNCHANGED <<server, runs, ceilingHit, codeContentForAnalysis, status, repoData, analysis, error, pc, locals, sstack, stack,
                 requests, walked, pending>>

\* RepoInput: the form is submitted with the text of the input box
HandleSubmit == HandleAnalyze(inputUrl)

\* Mutant of HandleReset: the repository data is kept
HandleResetKeepsData ==
  /\ status \in {COMPLETE, ERROR}
  /\ status' = IDLE
  /\ analysis' = NULL
  /\ error' = NULL
  /\ UNCHANGED <<server, runs, ceilingHit, codeContentForAnalysis, inputUrl, pc, locals, sstack, stack, requests, walked,
                 pending, repoData>>

\* Mutant of HandleReset: the button is there while the analysis runs
HandleResetWhileLoading ==
  /\ status # IDLE
  /\ status' = IDLE
  /\ repoData' = NULL
  /\ analysis' = NULL
  /\ error' = NULL
  /\ UNCHANGED <<server, runs, ceilingHit, codeContentForAnalysis, inputUrl, pc, locals, sstack, stack, requests, walked,
                 pending>>

HandleReset ==
  /\ status \in {COMPLETE, ERROR}
  /\ status' = IDLE
  /\ repoData' = NULL
  /\ analysis' = NULL
  /\ error' = NULL
  /\ UNCHANGED <<server, runs, ceilingHit, codeContentForAnalysis, inputUrl, pc, locals, sstack, stack, requests, walked, pending>>

(***************************************************************************)
(* githubService.ts: fetchRepoData, steps 1-3.                             *)
(***************************************************************************)
\* The maxDepth fetchRepoData passes to fetchFileStructureRecursive
STRUCTURE_MAX_DEPTH == 5

\* Mutant of StructureFrame: the walk is given two more levels
StructureFrameDeeper(path, currentDepth) ==
  [path |-> path, currentDepth |-> currentDepth, maxDepth |-> STRUCTURE_MAX_DEPTH + 2,
   at |-> "fetch", i |-> 1, structure |-> <<>>]

StructureFrame(path, currentDepth) ==
  [path |-> path, currentDepth |-> currentDepth, maxDepth |-> STRUCTURE_MAX_DEPTH,
   at |-> "fetch", i |-> 1, structure |-> <<>>]

WalkFrame(path) ==
  [path |-> path, at |-> "fetch", i |-> 1, files |-> <<>>, totalSize |-> 0]

\* response.ok
Ok(st) == st >= 200 /\ st <= 299

\* Mutant of MetaError: only 404 and 403 are taken for failures
MetaErrorKnownStatuses(st) ==
  CASE st = 404 -> "Repository not found (or private)."
    [] st = 403 -> "GitHub API rate limit exceeded. Please try again later."
    [] OTHER -> ""

\* The message of the error the metadata response makes fetchRepoData throw ("": none)
MetaError(st) ==
  CASE st = 0 -> "Failed to fetch"
    [] Ok(st) -> ""
    [] st = 404 -> "Repository not found (or private)."
    [] st = 403 -> "GitHub API rate limit exceeded. Please try again later."
    [] OTHER -> "GitHub API Error: " \o StatusText(st)

\* 1. the metadata response: any failure is thrown to handleAnalyze
MetaResponse ==
  /\ pc = "meta"
  /\ IF MetaError(server.meta) = ""
     THEN /\ pc' = "readme"
          /\ requests' = Append(requests, Req("readme", ""))
          /\ pending' = Append(Tail(pending), Req("readme", ""))
          /\ UNCHANGED <<status, error>>
     ELSE /\ Fail(MetaError(server.meta))
          /\ pending' = Tail(pending)
          /\ UNCHANGED requests
  /\ UNCHANGED <<server, runs, ceilingHit, codeContentForAnalysis, inputUrl, repoData, analysis, locals, sstack, stack, walked>>

\* 2. the README response: a failure leaves readmeContent null
ReadmeResponse ==
  /\ pc = "readme"
  /\ locals' = [locals EXCEPT !.readmeContent = IF Ok(server.readme) THEN [text |-> "readme"] ELSE NULL]
  /\ pc' = "languages"
  /\ requests' = Append(requests, Req("languages", ""))
  /\ pending' = Append(Tail(pending), Req("languages", ""))
  /\ UNCHANGED <<server, runs, ceilingHit, codeContentForAnalysis, inputUrl, status, repoData, analysis, error, sstack, stack, walked>>

\* 3. the languages response, then 4. the call of fetchFileStructureRecursive,
\* which issues the listing request of the root
LanguagesResponse ==
  /\ pc = "languages"
  /\ locals' = [locals EXCEPT !.languages = IF Ok(server.languages) THEN {"TypeScript"} ELSE {}]
  /\ pc' = "structure"
  /\ sstack' = <<StructureFrame("", 0)>>
  /\ requests' = Append(requests, Req("structure", ""))
  /\ pending' = Append(Tail(pending), Req("structure", ""))
  /\ UNCHANGED <<server, runs, ceilingHit, codeContentForAnalysis, inputUrl, status, repoData, analysis, error, stack, walked>>

(***************************************************************************)
(* fetchFileStructureRecursive (the display walk).                         *)
(***************************************************************************)
\* The listing response of the innermost call
StructureResponse ==
  /\ pc = "structure"
  /\ Top(sstack).at = "fetch"
  /\ LET f == Top(sstack)
     IN sstack' = [sstack EXCEPT ![Len(sstack)] =
          IF Ok(Listing(f.path).status)
          THEN [f EXCEPT !.at = "run"]
          ELSE [f EXCEPT !.at = "done"]]
  /\ pending' = Tail(pending)
  /\ UNCHANGED <<server, runs, ceilingHit, codeContentForAnalysis, inputUrl, status, repoData, analysis, error, pc, locals, stack, requests, walked>>

\* Does the loop recurse into this item?
StructureRecurses(f, item) ==
  /\ item.type = "dir"
  /\ toLowerCase(item.name) \notin SKIP_DIRECTORIES
  /\ f.currentDepth < f.maxDepth - 1

\* The two pictographs of the lines, and '  '.repeat(n)
DirIcon == "[dir]"
FileIcon == "[file]"
RECURSIVE Repeat(_, _)
Repeat(s, n) == IF n = 0 THEN "" ELSE s \o Repeat(s, n - 1)

\* The lines the loop pushes for the items from..to of the listing
StructureLines(f, from, to) ==
  LET contents == Contents(f)
      line(k) ==
        LET item == contents[k]
        IN IF item.type = "dir"
           THEN IF toLowerCase(item.name) \in SKIP_DIRECTORIES THEN <<>>
                ELSE <<Repeat("  ", f.currentDepth) \o DirIcon \o " " \o item.name \o "/">>
           ELSE <<Repeat("  ", f.currentDepth) \o FileIcon \o " " \o item.name>>
      all == [k \in 1..(to - from + 1) |-> line(from + k - 1)]
      kept == SelectSeq(all, LAMBDA l : l # <<>>)
  IN [k \in 1..Len(kept) |-> kept[k][1]]

\* The loop of the innermost call, from item i up to its next await (the recursive
\* call for a directory) or to its end
StructureRun ==
  /\ pc = "structure"
  /\ Top(sstack).at = "run"
  /\ LET f == Top(sstack)
         contents == Contents(f)
         n == Len(contents)
         stops == {k \in f.i..n : StructureRecurses(f, contents[k])}
         j == IF stops = {} THEN n + 1 ELSE CHOOSE k \in stops : \A m \in stops : k <= m
         pushed == StructureLines(f, f.i, IF j > n THEN n ELSE j)
         g == [f EXCEPT !.structure = @ \o pushed, !.i = j]
     IN IF j > n
        THEN /\ sstack' = [sstack EXCEPT ![Len(sstack)] = [g EXCEPT !.at = "done"]]
             /\ UNCHANGED <<requests, pending>>
        ELSE LET item == Entry(f, j)
             IN IF f.currentDepth + 1 >= f.maxDepth
                THEN \* the callee returns [] at once
                     /\ sstack' = [sstack EXCEPT ![Len(sstack)] = [g EXCEPT !.i = j + 1]]
                     /\ UNCHANGED <<requests, pending>>
                ELSE /\ sstack' = Append([sstack EXCEPT ![Len(sstack)] = [g EXCEPT !.at = "call"]],
                                         StructureFrame(item.path, f.currentDepth + 1))
                     /\ requests' = Append(requests, Req("structure", item.path))
                     /\ pending' = Append(pending, Req("structure", item.path))
  /\ UNCHANGED <<server, runs, ceilingHit, codeContentForAnalysis, inputUrl, status, repoData, analysis, error, pc, locals, stack, walked>>

\* The innermost call returns: to its caller, which pushes the lines and goes on, or
\* to fetchRepoData, which counts the files and calls fetchAllFilesRecursive (5.)
StructureReturn ==
  /\ pc = "structure"
  /\ Top(sstack).at = "done"
  /\ LET f == Top(sstack)
         d == Len(sstack)
     IN IF d > 1
        THEN /\ sstack' = [Pop(sstack) EXCEPT ![d - 1] =
                             [@ EXCEPT !.structure = @ \o f.structure, !.i = @ + 1, !.at = "run"]]
             /\ UNCHANGED <<pc, locals, stack, requests, pending>>
        ELSE /\ sstack' = <<>>
             /\ locals' = [locals EXCEPT
                             !.fileStructure = f.structure,
                             !.totalFiles = Len(SelectSeq(f.structure, LAMBDA l : Includes(l, FileIcon)))]
             /\ pc' = "content"
             /\ stack' = <<WalkFrame("")>>
             /\ requests' = Append(requests, Req("list", ""))
             /\ pending' = Append(pending, Req("list", ""))
  /\ UNCHANGED <<server, runs, ceilingHit, codeContentForAnalysis, inputUrl, status, repoData, analysis, error, walked>>

(***************************************************************************)
(* fetchAllFilesRecursive (the content walk).  Each call has its own files *)
(* and totalSize.                                                          *)
(***************************************************************************)
CodeFile(item, content) ==
  [path |-> item.path, content |-> content, size |-> item.size,
   language |-> detectLanguage(item.path), isTest |-> isTestFile(item.path),
   isConfig |-> isConfigFile(item.path), isDocumentation |-> isDocumentationFile(item.path),
   priority |-> getFilePriority(item.path)]

\* The check after a subdirectory's files are pushed (line 175)
LimitReached(files, totalSize) ==
  Len(files) >= MAX_FILES_TO_ANALYZE \/ totalSize >= MAX_TOTAL_CODE_SIZE

\* The checks before a file is fetched (lines 183-184)
CountCeiling(files) == Len(files) >= MAX_FILES_TO_ANALYZE
SizeCeiling(totalSize, size) == totalSize + size > MAX_TOTAL_CODE_SIZE

SetTop(stk, frame) == [stk EXCEPT ![Len(stk)] = frame]

\* Mutant of FetchFails: an empty content is taken for a file
FetchFailsUnlessEmpty(item) ==
  \/ ~Ok(item.status)
  \/ Atob(item.content) < 0

\* Does the content request of the item yield no file?
FetchFails(item) ==
  \/ ~Ok(item.status)              \* the request is rejected (catch), or !fileResponse.ok
  \/ item.content.len = 0          \* !fileData.content
  \/ Atob(item.content) < 0        \* atob throws (catch)

\* Mutant of AfterFile: a failure is not caught in the loop and ends the call
AfterFileAborting(f, item) ==
  IF FetchFails(item) THEN [f EXCEPT !.at = "done"]
  ELSE [f EXCEPT !.i = @ + 1,
                 !.files = Append(@, CodeFile(item, Atob(item.content))),
                 !.totalSize = @ + item.size]

\* The call f after the content response of the item it is fetching (lines 189-215)
AfterFile(f, item) ==
  LET next == [f EXCEPT !.i = @ + 1]
  IN IF FetchFails(item) THEN next
     ELSE [next EXCEPT !.files = Append(@, CodeFile(item, Atob(item.content))),
                       !.totalSize = @ + item.size]

\* The listing response of the innermost call of a stack: anything but an array
\* returns []
ListingStep(stk) ==
  LET f == Top(stk)
  IN SetTop(stk, IF Ok(Listing(f.path).status)
                 THEN [f EXCEPT !.at = "loop"]
                 ELSE [f EXCEPT !.at = "done"])

ListingResponse ==
  /\ pc = "content"
  /\ Top(stack).at = "fetch"
  /\ stack' = ListingStep(stack)
  /\ pending' = Tail(pending)
  /\ UNCHANGED <<server, runs, ceilingHit, codeContentForAnalysis, inputUrl, status, repoData, analysis, error, pc, locals, sstack,
                 requests, walked>>

\* Mutant of DirRequests: the listings of the directory and of the directories after
\* it in the same listing are requested together
DirRequestsFanOut(f, item) ==
  LET n == Len(Contents(f))
      dirs == SelectSeq([k \in 1..(n - f.i + 1) |-> f.i + k - 1],
                        LAMBDA k : Entry(f, k).type = "dir")
  IN [j \in 1..Len(dirs) |-> Req("list", Entry(f, dirs[j]).path)]

\* The listing requests issued when the loop reaches a directory it enters: the
\* recursive call is awaited, so the request of that directory and no other
DirRequests(f, item) == <<Req("list", item.path)>>

\* One iteration of the loop of the innermost call of a stack: a directory is skipped
\* or entered (the recursive call issues its listing request); a file is skipped,
\* ends the loop, or is requested and, with the response, pushed or left out.  The
\* stack after the iteration, the requests it issued, and those still unanswered.
LoopStep(stk) ==
  LET f == Top(stk)
      item == Entry(f, f.i)
      next == [stack |-> SetTop(stk, [f EXCEPT !.i = @ + 1]), sent |-> <<>>, awaiting |-> <<>>,
               hit |-> FALSE]
  IN CASE item.type = "dir" ->
            IF toLowerCase(item.name) \in SKIP_DIRECTORIES THEN next
            ELSE [stack |-> Append(SetTop(stk, [f EXCEPT !.at = "call"]), WalkFrame(item.path)),
                  sent |-> DirRequests(f, item),
                  awaiting |-> DirRequests(f, item), hit |-> FALSE]
       [] item.type = "file" ->
            IF shouldSkipFile(item.path, item.size) THEN next
            ELSE IF CountCeiling(f.files)
            THEN [stack |-> SetTop(stk, [f EXCEPT !.at = "done"]), sent |-> <<>>,
                  awaiting |-> <<>>, hit |-> TRUE]
            ELSE IF SizeCeiling(f.totalSize, item.size) THEN [next EXCEPT !.hit = TRUE]
            ELSE [stack |-> SetTop(stk, AfterFile(f, item)), sent |-> <<FileReq(item)>>,
                  awaiting |-> <<>>, hit |-> FALSE]
       [] OTHER -> next

LoopItem ==
  /\ pc = "content"
  /\ Top(stack).at = "loop"
  /\ Top(stack).i <= Len(Contents(Top(stack)))
  /\ LET step == LoopStep(stack)
     IN /\ stack' = step.stack
        /\ requests' = requests \o step.sent
        /\ pending' = pending \o step.awaiting
        /\ ceilingHit' = (ceilingHit \/ step.hit)
  /\ UNCHANGED <<server, runs, inputUrl, status, repoData, analysis, error, pc, locals, sstack,
                 walked, codeContentForAnalysis>>

\* Mutant of AfterCall: the limits are not checked after a subdirectory
AfterCallUnchecked(caller, subFiles) ==
  [caller EXCEPT !.files = caller.files \o subFiles,
                 !.totalSize = TotalSize(caller.files \o subFiles),
                 !.i = @ + 1, !.at = "loop"]

\* Mutant of AfterCall: the files of the subdirectory go before the caller's own
AfterCallPrepends(caller, subFiles) ==
  LET files == subFiles \o caller.files
      totalSize == TotalSize(files)
  IN IF LimitReached(files, totalSize)
     THEN [caller EXCEPT !.files = files, !.totalSize = totalSize, !.at = "done"]
     ELSE [caller EXCEPT !.files = files, !.totalSize = totalSize, !.i = @ + 1, !.at = "loop"]

\* The caller after the recursive call for its item i returned subFiles (lines
\* 170-177): push, sum, and leave the loop if a limit is reached
AfterCall(caller, subFiles) ==
  LET files == caller.files \o subFiles
      totalSize == TotalSize(files)
  IN IF LimitReached(files, totalSize)
     THEN [caller EXCEPT !.files = files, !.totalSize = totalSize, !.at = "done"]
     ELSE [caller EXCEPT !.files = files, !.totalSize = totalSize, !.i = @ + 1, !.at = "loop"]

\* Has the loop of the innermost call of a stack ended?
Returns(stk) ==
  \/ Top(stk).at = "done"
  \/ Top(stk).at = "loop" /\ Top(stk).i > Len(Contents(Top(stk)))

\* The innermost call returns its files to its caller, which pushes them, sums the
\* sizes and checks the limits
ReturnStep(stk) == [Pop(stk) EXCEPT ![Len(stk) - 1] = AfterCall(@, Top(stk).files)]

\* The innermost call returns its files: to its caller, or to fetchRepoData, which
\* sorts, truncates and issues the commits request (9.)
WalkReturn ==
  /\ pc = "content"
  /\ Returns(stack)
  /\ LET f == Top(stack)
         d == Len(stack)
     IN IF d > 1
        THEN /\ stack' = ReturnStep(stack)
             /\ ceilingHit' = (ceilingHit \/ CountCeiling(Top(ReturnStep(stack)).files))
             /\ UNCHANGED <<pc, locals, requests, walked, pending>>
        ELSE LET allCodeFiles == SortByPriority(f.files)
                 codeFiles == Slice(allCodeFiles, MAX_FILES_TO_ANALYZE)
             IN /\ stack' = <<>>
                /\ walked' = f.files
                /\ locals' = [locals EXCEPT
                                !.codeFiles = codeFiles,
                                !.totalCodeSize = TotalSize(codeFiles),
                                !.filesSkipped = Len(allCodeFiles) - Len(codeFiles)]
                /\ pc' = "commits"
                /\ requests' = Append(requests, Req("commits", ""))
                /\ pending' = Append(pending, Req("commits", ""))
                /\ UNCHANGED ceilingHit
  /\ UNCHANGED <<server, runs, inputUrl, status, repoData, analysis, error, sstack,
                 codeContentForAnalysis>>

(***************************************************************************)
(* fetchRepoData, steps 9-11 and the return; handleAnalyze after it.       *)
(***************************************************************************)
CommitsResponse ==
  /\ pc = "commits"
  /\ locals' = [locals EXCEPT !.commits = IF Ok(server.commits) THEN <<"commit">> ELSE <<>>]
  /\ pc' = "branches"
  /\ requests' = Append(requests, Req("branches", ""))
  /\ pending' = Append(Tail(pending), Req("branches", ""))
  /\ UNCHANGED <<server, runs, ceilingHit, codeContentForAnalysis, inputUrl, status, repoData, analysis, error, sstack, stack, walked>>

BranchesResponse ==
  /\ pc = "branches"
  /\ locals' = [locals EXCEPT !.branches = IF Ok(server.branches) THEN <<"main">> ELSE <<>>]
  /\ pc' = "pulls"
  /\ requests' = Append(requests, Req("pulls", ""))
  /\ pending' = Append(Tail(pending), Req("pulls", ""))
  /\ UNCHANGED <<server, runs, ceilingHit, codeContentForAnalysis, inputUrl, status, repoData, analysis, error, sstack, stack, walked>>

(***************************************************************************)
(* geminiService.ts: analyzeRepository chooses the files of the code block *)
(* of the prompt and formats them.  A text is modelled by its number of    *)
(* characters.                                                             *)
(***************************************************************************)
\* repoData.codeFiles.filter(...).slice(0, n), for the four selections
highPriorityFiles(codeFiles) ==
  Slice(SelectSeq(codeFiles, LAMBDA f : f.priority = "high"), 50)
mediumPriorityFiles(codeFiles) ==
  Slice(SelectSeq(codeFiles, LAMBDA f : f.priority = "medium"), 30)
configFiles(codeFiles) == Slice(SelectSeq(codeFiles, LAMBDA f : f.isConfig), 20)
testFiles(codeFiles) == Slice(SelectSeq(codeFiles, LAMBDA f : f.isTest), 20)

selectedFiles(codeFiles) ==
  highPriorityFiles(codeFiles) \o mediumPriorityFiles(codeFiles)
    \o configFiles(codeFiles) \o testFiles(codeFiles)

\* Mutant of uniqueFiles: the selections are not deduplicated
uniqueFilesRepeated(codeFiles) == selectedFiles(codeFiles)

\* Array.from(new Map(selectedFiles.map(f => [f.path, f])).values()): a Map keeps
\* a key at the place of its first insertion and holds the value set last
uniqueFiles(codeFiles) ==
  LET selected == selectedFiles(codeFiles)
      n == Len(selected)
      firsts == SelectSeq(SubSeq([k \in 1..n |-> k], 1, n), LAMBDA k :
                  \A j \in 1..(k - 1) : selected[j].path # selected[k].path)
  IN SubSeq([i \in 1..Len(firsts) |->
               selected[MaxOf({j \in 1..n : selected[j].path = selected[firsts[i]].path})]],
            1, Len(firsts))

\* The default of the parameter maxChars and the argument the call passes
maxChars == 150000
\* The number of characters of content a section shows in full
contentChars == 2000

\* Mutant of fileContent: the content is shown in full
fileContentWhole(file) == file.content

\* fileContent: the content, or its first 2000 characters and a marker
fileContent(file) ==
  IF file.content > contentChars THEN contentChars + Len("\n... [truncated]")
  ELSE file.content

\* fileSection: the header line between two line breaks, the content and a line
\* break; the section of a file is modelled by the file, the number of characters
\* of content it shows and its length
fileSection(file) ==
  [file |-> file,
   content |-> fileContent(file),
   chars |-> Len("\n--- FILE: " \o file.path \o " ("
                  \o (IF file.language = "undefined" THEN "Unknown" ELSE file.language)
                  \o ", " \o ToString(file.size) \o " bytes, Priority: " \o file.priority
                  \o ") ---\n")
               + fileContent(file) + Len("\n")]

\* Mutant of Overflows: the cap is tested before a section is made only
OverflowsNever(totalChars, file, cap) == FALSE

\* if (totalChars + fileSection.length > maxChars) break
Overflows(totalChars, file, cap) == totalChars + fileSection(file).chars > cap

\* The loop of formatCodeFiles from the k-th file on: the sections pushed to
\* formatted
RECURSIVE FormatFrom(_, _, _, _, _)
FormatFrom(files, k, totalChars, formatted, cap) ==
  IF k > Len(files) \/ totalChars >= cap \/ Overflows(totalChars, files[k], cap)
  THEN formatted
  ELSE FormatFrom(files, k + 1, totalChars + fileSection(files[k]).chars,
                  Append(formatted, fileSection(files[k])), cap)

formatCodeFiles(files, cap) == FormatFrom(files, 1, 0, <<>>, cap)

\* The pull-requests response; fetchRepoData returns; handleAnalyze stores the data
\* and calls analyzeRepository, which throws without an API key and otherwise
\* builds and sends the prompt
PullsResponse ==
  /\ pc = "pulls"
  /\ repoData' = [owner |-> locals.owner, name |-> locals.repo,
                  readmeContent |-> locals.readmeContent, languages |-> locals.languages,
                  fileStructure |-> locals.fileStructure, totalFiles |-> locals.totalFiles,
                  commits |-> locals.commits, branches |-> locals.branches,
                  pullRequests |-> IF Ok(server.pulls) THEN <<"pull">> ELSE <<>>,
                  codeFiles |-> locals.codeFiles, totalCodeSize |-> locals.totalCodeSize,
                  filesAnalyzed |-> Len(locals.codeFiles), filesSkipped |-> locals.filesSkipped]
  /\ locals' = NoLocals
  /\ status' = ANALYZING_GEMINI
  /\ pc' = "gemini"
  /\ requests' = IF server.gemini = "nokey" THEN requests ELSE Append(requests, Req("gemini", ""))
  /\ pending' = IF server.gemini = "nokey" THEN Tail(pending)
                ELSE Append(Tail(pending), Req("gemini", ""))
  /\ codeContentForAnalysis' = IF server.gemini = "nokey" THEN <<>>
                               ELSE formatCodeFiles(uniqueFiles(locals.codeFiles), maxChars)
  /\ UNCHANGED <<server, runs, ceilingHit, inputUrl, analysis, error, sstack, stack, walked>>

\* analyzeRepository settles
GeminiResponse ==
  /\ pc = "gemini"
  /\ IF server.gemini = "ok"
     THEN /\ analysis' = [workingStatus |-> "Unknown"]
          /\ status' = COMPLETE
          /\ pc' = "idle"
          /\ UNCHANGED error
     ELSE /\ Fail(IF server.gemini = "nokey"
                  THEN "Gemini API Key is missing. Please set GEMINI_API_KEY environment variable."
                  ELSE "Failed to generate analysis. Please try again.")
          /\ UNCHANGED analysis
  /\ pending' = IF server.gemini = "nokey" THEN pending ELSE Tail(pending)
  /\ UNCHANGED <<server, runs, ceilingHit, codeContentForAnalysis, inputUrl, repoData, locals, sstack, stack, requests, walked>>

Next ==
  \/ \E text \in Typed(server) : SetUrl(text)
  \/ HandleSubmit
  \/ HandleReset
  \/ MetaResponse
  \/ ReadmeResponse
  \/ LanguagesResponse
  \/ StructureResponse
  \/ StructureRun
  \/ StructureReturn
  \/ ListingResponse
  \/ LoopItem
  \/ WalkReturn
  \/ CommitsResponse
  \/ BranchesResponse
  \/ PullsResponse
  \/ GeminiResponse

Spec == Init /\ [][Next]_vars

\* The steps that are not the user's: the continuations of handleAnalyze after the
\* metadata, README, languages, commits, branches, pull-request and analysis responses
Respond ==
  \/ MetaResponse
  \/ ReadmeResponse
  \/ LanguagesResponse
  \/ CommitsResponse
  \/ BranchesResponse
  \/ PullsResponse
  \/ GeminiResponse

\* and the steps of the two walks
WalkSteps ==
  \/ StructureResponse
  \/ StructureRun
  \/ StructureReturn
  \/ ListingResponse
  \/ LoopItem
  \/ WalkReturn

\* ENABLED <<LoopItem>>_vars: the loop has an item to visit
LoopItemEnabled ==
  /\ pc = "content"
  /\ Top(stack).at = "loop"
  /\ Top(stack).i <= Len(Contents(Top(stack)))

\* ENABLED <<WalkSteps>>_vars: a walk has a step to take (every step of a walk moves
\* an index, changes the position of a call, or makes or ends a call)
WalkStepsEnabled ==
  \/ pc = "structure" /\ Top(sstack).at \in {"fetch", "run", "done"}
  \/ pc = "content" /\ Top(stack).at = "fetch"
  \/ LoopItemEnabled
  \/ pc = "content" /\ Returns(stack)

\* The repositories of the behaviours checked for termination: the listings of at
\* most MaxFairNodes entries, scenario A, and the sample repository with every
\* outcome of the other requests
MaxFairNodes == 2

FairServers ==
  {[AllOk EXCEPT !.tree = t] : t \in UNION {Forests(n) : n \in 0..MaxFairNodes} \cup ScenarioA}
  \cup {srv \in Servers : srv.tree = SampleTree}

FairInit ==
  /\ server \in FairServers
  /\ status = IDLE
  /\ repoData = NULL
  /\ analysis = NULL
  /\ error = NULL
  /\ pc = "idle"
  /\ locals = NoLocals
  /\ sstack = <<>>
  /\ stack = <<>>
  /\ requests = <<>>
  /\ walked = <<>>
  /\ inputUrl = ""
  /\ pending = <<>>
  /\ ceilingHit = FALSE
  /\ codeContentForAnalysis = <<>>
  /\ runs = <<>>

\* Every request is answered and the event loop runs the continuation that awaits
\* the answer; the user may never type, submit or reset.  The last conjunct is
\* WF_vars(WalkSteps) with its ENABLED written out as WalkStepsEnabled.
FairSpec ==
  /\ FairInit
  /\ [][Next]_vars
  /\ WF_vars(Respond)
  /\ ([]<>~WalkStepsEnabled \/ []<><<WalkSteps>>_vars)

(***************************************************************************)
(* Two invocations of fetchAllFilesRecursive made side by side on the same *)
(* repository: each has its own call stack and, in every call, its own     *)
(* files and totalSize.  A step is one iteration or one await of one of    *)
(* them.                                                                   *)
(***************************************************************************)
MaxConcurrentNodes == 2

ConcurrentTrees ==
  UNION {Forests(n) : n \in 0..MaxConcurrentNodes} \cup ScenarioA \cup {SampleTree}

\* The walk of a new invocation on a path
Walk(path) == [stack |-> <<WalkFrame(path)>>, files |-> <<>>, done |-> FALSE]

\* The paths an invocation may be made on: the root and the directories under it
StartPaths(tree) == {""} \cup {tree[k].name : k \in {j \in DOMAIN tree : tree[j].type = "dir"}}

\* One step of a walk: the listing response, one iteration of the loop, or the
\* return of the innermost call, to its caller or to the one who made the invocation
Advance(walk) ==
  IF walk.done THEN walk
  ELSE IF Top(walk.stack).at = "fetch" THEN [walk EXCEPT !.stack = ListingStep(walk.stack)]
  ELSE IF ~Returns(walk.stack) THEN [walk EXCEPT !.stack = LoopStep(walk.stack).stack]
  ELSE IF Len(walk.stack) > 1 THEN [walk EXCEPT !.stack = ReturnStep(walk.stack)]
  ELSE [stack |-> <<>>, files |-> Top(walk.stack).files, done |-> TRUE]

\* Mutant of Invocation: the calls of every invocation work on the variables of the
\* first one
InvocationShared(rs, r) == rs[1].walk

\* The variables a step of invocation r reads and writes: its own
Invocation(rs, r) == rs[r].walk

RunStep(r) ==
  /\ r \in DOMAIN runs
  /\ ~runs[r].walk.done
  /\ runs' = [runs EXCEPT ![r].walk = Advance(Invocation(runs, r))]
  /\ UNCHANGED <<server, inputUrl, status, repoData, analysis, error, pc, locals, sstack, stack,
                 requests, walked, pending, ceilingHit, codeContentForAnalysis>>

ConcurrentInit ==
  /\ server \in {[AllOk EXCEPT !.tree = t] : t \in ConcurrentTrees}
  /\ runs \in {<<[path |-> "", walk |-> Walk("")], [path |-> p, walk |-> Walk(p)]>> :
                 p \in StartPaths(server.tree)}
  /\ status = IDLE
  /\ repoData = NULL
  /\ analysis = NULL
  /\ error = NULL
  /\ pc = "idle"
  /\ locals = NoLocals
  /\ sstack = <<>>
  /\ stack = <<>>
  /\ requests = <<>>
  /\ walked = <<>>
  /\ inputUrl = ""
  /\ pending = <<>>
  /\ ceilingHit = FALSE
  /\ codeContentForAnalysis = <<>>

ConcurrentNext == \E r \in 1..2 : RunStep(r)

ConcurrentSpec == ConcurrentInit /\ [][ConcurrentNext]_vars

(***************************************************************************)
(* Properties.                                                             *)
(***************************************************************************)
\* fetchRepoData has returned and handleAnalyze holds its result
Collected == pc = "gemini"

MiB == 1024 * 1024

\* Has the path a segment that is, in lower case, a skip-listed directory name?
HasSkipSegment(path) ==
  \E part \in Range(Split(toLowerCase(path), "/")) : part \in SKIP_DIRECTORIES

\* C1: the returned file set has a total declared size of at most 10 MiB.
\* The content walk gives every recursive call a totalSize of its own, so the
\* files of a subdirectory are pushed without any check against the caller's total.
C1_TotalSizeWithinCeiling ==
  Collected => repoData.totalCodeSize <= 10 * MiB

\* C2: the returned file set holds at most 500 files and filesAnalyzed is its length.
C2_CountWithinCeiling ==
  Collected => /\ Len(repoData.codeFiles) <= 500
               /\ repoData.filesAnalyzed = Len(repoData.codeFiles)

\* C2 witness: the walk returned more than 500 files and the result holds 500
C2_Witness ==
  Collected /\ Len(walked) > 500 /\ Len(repoData.codeFiles) = 500

\* The files of a listing (and of the directories below it that the walk enters)
\* that the admission filter accepts
RECURSIVE EligibleIn(_, _), EligibleBelow(_, _, _)
EligibleIn(dirPath, children) ==
  LET files == SelectSeq(children, LAMBDA e :
                 e.type = "file" /\ ~shouldSkipFile(ItemPath(dirPath, e.name), e.size))
      dirs == SelectSeq(children, LAMBDA e :
                 e.type = "dir" /\ toLowerCase(e.name) \notin SKIP_DIRECTORIES)
  IN Len(files) + EligibleBelow(dirPath, dirs, 1)
EligibleBelow(dirPath, dirs, k) ==
  IF k > Len(dirs) THEN 0
  ELSE EligibleIn(ItemPath(dirPath, dirs[k].name), dirs[k].children)
       + EligibleBelow(dirPath, dirs, k + 1)

\* Does every request about the listing's entries answer 200 with a decodable body?
RECURSIVE AllAnswer(_)
AllAnswer(children) ==
  \A k \in 1..Len(children) :
    CASE children[k].type = "file" ->
           /\ children[k].status = 200
           /\ children[k].content.len > 0
           /\ children[k].content.len % 4 = 0
      [] children[k].type = "dir" ->
           children[k].status = 200 /\ AllAnswer(children[k].children)
      [] OTHER -> TRUE

\* The sizes the listings declare add up to at most the aggregate ceiling
RECURSIVE DeclaredSize(_)
DeclaredSize(children) ==
  LET sizes == [k \in 1..Len(children) |->
                  [size |-> IF children[k].type = "dir"
                            THEN DeclaredSize(children[k].children)
                            ELSE children[k].size]]
  IN TotalSize(sizes)

\* C3: with N > 500 eligible files, all within the size budget and no request
\* failing, the result holds exactly 500 files and filesSkipped = N - 500.
\* The walk leaves its loop at the 501st file, so what it returns never holds the
\* files beyond the ceiling and filesSkipped counts none of them.
C3_SkippedIsDiscoveredMinusAnalyzed ==
  (/\ Collected
   /\ server.rootStatus = 200
   /\ AllAnswer(server.tree)
   /\ DeclaredSize(server.tree) <= 10 * MiB
   /\ EligibleIn("", server.tree) > 500)
  => /\ Len(repoData.codeFiles) = 500
     /\ repoData.filesSkipped = EligibleIn("", server.tree) - 500

\* The request issued last, if any
LastRequest == requests[Len(requests)]

\* C4: no file with a path segment that is, case-insensitively, a skip-listed
\* directory name is in the collected result, and no content request is issued for it.
C4_SkipListedSegmentsExcluded ==
  /\ (requests # <<>> /\ LastRequest.kind = "file") => ~HasSkipSegment(LastRequest.path)
  /\ Collected =>
       /\ \A k \in 1..Len(walked) : ~HasSkipSegment(walked[k].path)
       /\ \A k \in 1..Len(repoData.codeFiles) : ~HasSkipSegment(repoData.codeFiles[k].path)

\* C4 witness: a directory Dist, or a file Build, that the other rules would let
\* through stands in the root listing before a file that is collected
C4_Witness ==
  /\ Collected
  /\ Len(server.tree) <= MaxNodes
  /\ \E k \in 1..Len(server.tree) : \E j \in (k + 1)..Len(server.tree) :
       /\ \/ /\ server.tree[k].type = "dir"
             /\ server.tree[k].name = "Dist"
             /\ \E c \in Range(server.tree[k].children) : c.type = "file" /\ c.name = "app.ts"
          \/ server.tree[k].type = "file" /\ server.tree[k].name = "Build"
       /\ \E f \in Range(repoData.codeFiles) : f.path = server.tree[j].name

\* C5: a content request is issued only for a file the admission filter accepts:
\* declared size at most 1 MiB, no skip-listed segment, extension not excluded, none
\* of the substrings .min. .bundle. .chunk. in the path.
C5_NoFetchOfRejectedFile ==
  (requests # <<>> /\ LastRequest.kind = "file") =>
    /\ LastRequest.size <= 1024 * 1024
    /\ ~HasSkipSegment(LastRequest.path)
    /\ toLowerCase(ExtOf(LastRequest.path)) \notin SKIP_EXTENSIONS
    /\ \A sub \in {".min.", ".bundle.", ".chunk."} : ~Includes(LastRequest.path, sub)

\* C5 witness: the listing holds a file of 1 MiB + 1 byte and one of exactly 1 MiB,
\* and the content of the latter has been requested
C5_Witness ==
  /\ Collected
  /\ Len(server.tree) <= MaxNodes
  /\ \E e \in Range(server.tree) : e.type = "file" /\ e.size = 1024 * 1024 + 1
  /\ \E e \in Range(server.tree) :
       /\ e.type = "file" /\ e.size = 1024 * 1024
       /\ \E r \in Range(requests) : r.kind = "file" /\ r.path = e.name

\* The position of a priority tier in the final order
TierRank(tier) == CASE tier = "high" -> 1 [] tier = "medium" -> 2 [] tier = "low" -> 3

\* The files of one tier, in the order of the sequence
OfTier(files, tier) == SelectSeq(files, LAMBDA f : f.priority = tier)

IsPrefix(s, t) == Len(s) <= Len(t) /\ s = SubSeq(t, 1, Len(s))

\* C6: the final list has every high file before every medium file before every low
\* file, and within a tier the files stand in the order the walk discovered them.
C6_SortedByTierAndStable ==
  Collected =>
    LET codeFiles == repoData.codeFiles
    IN /\ \A k \in 1..(Len(codeFiles) - 1) :
            TierRank(codeFiles[k].priority) <= TierRank(codeFiles[k + 1].priority)
       /\ \A tier \in {"high", "medium", "low"} :
            IsPrefix(OfTier(codeFiles, tier), OfTier(walked, tier))
       /\ Len(codeFiles) = IF Len(walked) < 500 THEN Len(walked) ELSE 500

\* C6 witness: the walk discovered a low file, then a high file, then another low file
C6_Witness ==
  /\ Collected
  /\ \E i, j, k \in 1..6 :
       /\ i < j /\ j < k /\ k <= Len(walked)
       /\ walked[i].priority = "low" /\ walked[j].priority = "high"
       /\ walked[k].priority = "low" /\ walked[i].path # walked[k].path
  /\ Len(repoData.codeFiles) = Len(walked)

\* C7: a path admitted twice during the walk stands only once in the final result.
\* Neither the walk nor fetchRepoData compares paths: the only Map keyed by path is
\* in the prompt assembly of analyzeRepository, after the result was returned.
C7_PathsDistinct ==
  Collected =>
    \A i, j \in 1..Len(repoData.codeFiles) :
      repoData.codeFiles[i].path = repoData.codeFiles[j].path => i = j

\* Does the content request of the entry fail, answer a non-success status, or
\* answer a body that is empty or cannot be decoded?
ContentUnusable(e) ==
  \/ e.status < 200 \/ e.status > 299
  \/ e.content.len = 0
  \/ e.content.len % 4 # 0

\* The innermost call of the content walk stands at a file of its listing
AtFile ==
  /\ pc = "content" /\ stack # <<>>
  /\ Top(stack).at = "loop"
  /\ Top(stack).i <= Len(Contents(Top(stack)))
  /\ Entry(Top(stack), Top(stack).i).type = "file"

\* C8: when the content request of a file is issued and fails, answers a
\* non-success status or an undecodable body, the call goes on to the next entry
\* with its files and its total unchanged, exactly as it passes an entry it does not
\* touch, and nothing else changes: the file is left out and the walk is not aborted.
C8_FailedFetchStep ==
  (/\ AtFile
   /\ ContentUnusable(Entry(Top(stack), Top(stack).i))
   /\ requests' # requests)
  => /\ stack' = [stack EXCEPT ![Len(stack)].i = @ + 1]
     /\ requests' = Append(requests, FileReq(Entry(Top(stack), Top(stack).i)))
     /\ UNCHANGED <<status, error, pc, locals, repoData, walked>>

\* No file whose content request is unusable is in what the walk returns
C8_FailedFileOmitted ==
  (Collected /\ Len(server.tree) <= MaxNodes) =>
    \A e \in Range(server.tree) :
      (e.type = "file" /\ ContentUnusable(e)) =>
        \A f \in Range(walked) : f.path # e.name

C8_FailedFetchOmittedWalkContinues ==
  [][C8_FailedFetchStep]_vars /\ []C8_FailedFileOmitted

\* C8 witness: the root listing holds a file whose content request was issued and
\* was unusable, and after it a file that is collected
C8_Witness ==
  /\ Collected
  /\ Len(server.tree) <= MaxNodes
  /\ \E k \in 1..Len(server.tree) : \E j \in (k + 1)..Len(server.tree) :
       /\ server.tree[k].type = "file" /\ ContentUnusable(server.tree[k])
       /\ \E r \in Range(requests) : r.kind = "file" /\ r.path = server.tree[k].name
       /\ server.tree[j].type = "file"
       /\ \E f \in Range(repoData.codeFiles) : f.path = server.tree[j].name

\* The innermost call of the content walk is one for a subdirectory whose listing
\* request failed or answered a non-success status, and it is about to return
FailedListingReturns ==
  /\ pc = "content" /\ Len(stack) > 1
  /\ Top(stack).at = "done"
  /\ LET st == Listing(Top(stack).path).status IN st < 200 \/ st > 299

\* The call that waits for the innermost one
Caller == stack[Len(stack) - 1]

\* C9 as stated: when the listing of a directory fails, the walk continues with the
\* directory's remaining siblings.  Refuted: the caller checks its limits after every
\* subdirectory, and at a limit it leaves the loop with siblings unvisited.
C9_FailedListingSiblingsVisited ==
  [][(FailedListingReturns /\ Caller.i < Len(Contents(Caller)))
       => stack' = [Pop(stack) EXCEPT ![Len(stack) - 1] =
                      [Caller EXCEPT !.i = @ + 1, !.at = "loop"]]]_vars

\* Has the call collected 500 files or 10 MiB?
AtLimit(f) == Len(f.files) >= 500 \/ f.totalSize >= 10 * MiB

\* A failed listing adds no file and issues no further request; the caller goes on
\* to the next sibling unless it stands at a limit, where it ends its loop
C9_FailedListingStep ==
  FailedListingReturns
  => /\ stack' = [Pop(stack) EXCEPT ![Len(stack) - 1] =
                    IF AtLimit(Caller) THEN [Caller EXCEPT !.at = "done"]
                    ELSE [Caller EXCEPT !.i = @ + 1, !.at = "loop"]]
     /\ UNCHANGED <<requests, status, error, pc, locals, repoData, walked>>

\* A failed listing of the root makes fetchRepoData go on with an empty file set
C9_FailedRootStep ==
  (/\ pc = "content" /\ Len(stack) = 1 /\ Top(stack).at = "done"
   /\ (server.rootStatus < 200 \/ server.rootStatus > 299))
  => /\ pc' = "commits"
     /\ locals'.codeFiles = <<>>
     /\ UNCHANGED <<status, error>>

\* No content request is issued below a directory whose listing failed, and the
\* listing is requested once
C9_FailedSubtreeEmpty ==
  (Collected /\ Len(server.tree) <= MaxNodes) =>
    \A e \in Range(server.tree) :
      (e.type = "dir" /\ (e.status < 200 \/ e.status > 299)) =>
        /\ \A r \in Range(requests) :
             r.kind = "file" => ~StartsWith(r.path, e.name \o "/")
        /\ \A f \in Range(walked) : ~StartsWith(f.path, e.name \o "/")
        /\ Len(SelectSeq(requests, LAMBDA r : r.kind = "list" /\ r.path = e.name))
             <= Len(SelectSeq(server.tree, LAMBDA d : d.type = "dir" /\ d.name = e.name))

\* C9, amended: when the listing of a directory fails, the subtree contributes no
\* file, the listing is not retried, the collection still returns a result, and the
\* walk continues with the directory's remaining siblings unless the calling level
\* has already collected 500 files or 10 MiB, in which case it stops there.
C9_FailedListingContinuesBelowLimits ==
  /\ [][C9_FailedListingStep]_vars
  /\ [][C9_FailedRootStep]_vars
  /\ []C9_FailedSubtreeEmpty

\* C9 witness: a directory with files whose listing fails stands in the root listing
\* before a file that is collected
C9_Witness ==
  /\ Collected
  /\ Len(server.tree) <= MaxNodes
  /\ \E k \in 1..Len(server.tree) : \E j \in (k + 1)..Len(server.tree) :
       /\ server.tree[k].type = "dir"
       /\ server.tree[k].status = 404
       /\ server.tree[k].children # <<>>
       /\ \E r \in Range(requests) : r.kind = "list" /\ r.path = server.tree[k].name
       /\ server.tree[j].type = "file"
       /\ \E f \in Range(repoData.codeFiles) : f.path = server.tree[j].name

\* The message fetchRepoData throws for a metadata response of the status
MetadataMessage(st) ==
  CASE st = 404 -> "Repository not found (or private)."
    [] st = 403 -> "GitHub API rate limit exceeded. Please try again later."
    [] st = 500 -> "GitHub API Error: Internal Server Error"
    [] st = 0 -> "Failed to fetch"

MetadataFails == server.meta < 200 \/ server.meta > 299

\* The metadata response that fails ends handleAnalyze in its catch block
C10_MetadataFailureStep ==
  (pc = "meta" /\ MetadataFails)
  => /\ status' = ERROR
     /\ error' = [message |-> MetadataMessage(server.meta)]
     /\ pc' = "idle"
     /\ UNCHANGED <<requests, repoData, analysis>>

\* With a failing metadata request, no other request is ever issued and the App
\* never holds a result
C10_OnlyMetadataRequested ==
  MetadataFails =>
    /\ \A k \in 1..Len(requests) : requests[k].kind = "meta"
    /\ Len(requests) <= 1
    /\ pc \in {"idle", "meta"}
    /\ status \in {IDLE, FETCHING_GITHUB, ERROR}
    /\ repoData = NULL

\* C10: when the metadata request fails, fetchRepoData throws a user-facing error,
\* no README, languages, listing or content request is issued afterwards, and the
\* App ends in status ERROR holding that message.
C10_MetadataFailureAborts ==
  [][C10_MetadataFailureStep]_vars /\ []C10_OnlyMetadataRequested

\* C10 witness: the metadata request answered 404 and the App shows the error
C10_Witness ==
  /\ server.meta = 404
  /\ status = ERROR
  /\ error = [message |-> "Repository not found (or private)."]
  /\ requests = <<[kind |-> "meta", path |-> "", size |-> 0]>>

(***************************************************************************)
(* C11, C12: the URL the user submits.                                     *)
(***************************************************************************)
\* The inputs that the URL standard parses with the hostname github.com and a path
\* of at least two non-empty segments; each has "owner" first and "repo" second
GithubUrls ==
  { "https://github.com/owner/repo", "https://github.com/owner/repo/tree/main",
    "https://GitHub.com/owner/repo", "http://github.com/owner/repo/",
    "https://github.com//owner//repo", "https://github.com/owner/repo?tab=readme#top",
    "https://user@github.com:443/owner/repo", " https://github.com/owner/repo " }

InvalidUrl == Message("Invalid GitHub URL. Please use format: https://github.com/owner/repo")

\* A step of handleAnalyze that found the URL valid, or found it invalid
Accepts == status = IDLE /\ status' = FETCHING_GITHUB
Rejects == status = IDLE /\ status' = IDLE /\ error' = InvalidUrl /\ UNCHANGED inputUrl

\* C11: parseGithubUrl returns null unless the input parses as a URL whose hostname is
\* exactly github.com and whose path has at least two non-empty segments, and then
\* returns the first segment as owner and the second as repo: a submitted input is
\* accepted, with owner and repo, exactly when it is one of GithubUrls.
C11_ParseAcceptsExactlyGithubUrls ==
  /\ [](inputUrl \in Urls =>
          ParsedUrl[inputUrl] = IF inputUrl \in GithubUrls
                                THEN [owner |-> "owner", repo |-> "repo"] ELSE NULL)
  /\ [][/\ Accepts => /\ inputUrl \in GithubUrls
                      /\ locals'.owner = "owner"
                      /\ locals'.repo = "repo"
        /\ Rejects /\ Trim(inputUrl) # "" => inputUrl \notin GithubUrls]_vars

\* the user typed a URL with a query and a fragment, and the run started on owner/repo
C11_Witness ==
  /\ status = FETCHING_GITHUB
  /\ pc = "meta"
  /\ locals.owner = "owner" /\ locals.repo = "repo"
  /\ requests = <<Req("meta", "")>>

\* C12: when the URL is malformed (as https://github.com/onlyowner is), handleAnalyze
\* issues no request, the collection never starts, the invalid-URL error is surfaced
\* and the status is back to IDLE.
C12_MalformedUrlStartsNothing ==
  /\ [][status = IDLE /\ Trim(inputUrl) # "" /\ inputUrl \notin GithubUrls
          /\ (status' # status \/ error' # error \/ requests' # requests \/ pc' # pc)
        => /\ status' = IDLE
           /\ error' = InvalidUrl
           /\ requests' = <<>>
           /\ pending' = <<>>
           /\ pc' = "idle"
           /\ UNCHANGED <<stack, sstack, locals, repoData, analysis>>]_vars
  /\ [](status = IDLE /\ error = InvalidUrl => requests = <<>> /\ pending = <<>> /\ pc = "idle")

C12_Witness ==
  /\ inputUrl = "https://github.com/onlyowner"
  /\ status = IDLE
  /\ error = InvalidUrl
  /\ requests = <<>>
  /\ pc = "idle"

(***************************************************************************)
(* C13, C14: the tiers of the collected files.                             *)
(***************************************************************************)
\* C13: a repository with src/app.ts (2 KB), README.md (1 KB) and dist/bundle.min.js
\* (500 KB) yields exactly two files; the bundle is never requested; src/app.ts is
\* high, README.md is medium with isDocumentation, and app.ts comes first.
C13_ScenarioATwoFiles ==
  server.tree \in ScenarioA =>
    /\ \A k \in DOMAIN requests : requests[k].path \notin {"dist", "dist/bundle.min.js"}
    /\ Collected =>
         LET files == repoData.codeFiles
         IN /\ Len(files) = 2
            /\ files[1].path = "src/app.ts"
            /\ files[1].size = 2 * KB
            /\ files[1].priority = "high"
            /\ files[2].path = "README.md"
            /\ files[2].size = KB
            /\ files[2].priority = "medium"
            /\ files[2].isDocumentation
            /\ repoData.filesSkipped = 0

\* the walk met README.md before src/app.ts, and the result has app.ts first
C13_Witness ==
  /\ Collected
  /\ server.tree \in ScenarioA
  /\ server.tree[1].name = "README.md"
  /\ Len(repoData.codeFiles) = 2
  /\ walked[1].path = "README.md"
  /\ repoData.codeFiles[1].path = "src/app.ts"

\* Does one of the patterns of a rule match the path?
RuleMatches(patterns, path) ==
  \E k \in DOMAIN patterns : Matches(patterns[k], toLowerCase(path))

\* C14: every collected file has exactly one tier, a function of its path alone:
\* high when a high-priority rule matches the path; otherwise medium when a config or
\* a documentation rule matches; otherwise low.  Two collected files of the same path
\* have the same tier and the same role flags.
C14_TierIsFunctionOfPath ==
  Collected =>
    LET files == repoData.codeFiles
    IN /\ \A i \in DOMAIN files :
            LET f == files[i]
                high == RuleMatches(HIGH_PRIORITY_PATTERNS, f.path)
                config == RuleMatches(CONFIG_PATTERNS, f.path)
                doc == RuleMatches(DOC_PATTERNS, f.path)
            IN /\ f.priority \in {"high", "medium", "low"}
               /\ f.priority = "high" <=> high
               /\ f.priority = "medium" <=> ~high /\ (config \/ doc)
               /\ f.priority = "low" <=> ~high /\ ~config /\ ~doc
               /\ f.isConfig <=> config
               /\ f.isDocumentation <=> doc
               /\ f.isTest <=> RuleMatches(TEST_PATTERNS, f.path)
       /\ \A i, j \in DOMAIN files :
            files[i].path = files[j].path =>
              /\ files[i].priority = files[j].priority
              /\ files[i].isTest = files[j].isTest
              /\ files[i].isConfig = files[j].isConfig
              /\ files[i].isDocumentation = files[j].isDocumentation

\* the same path was collected twice, and files of all three tiers, one of them
\* matching both a high-priority and a documentation rule
C14_Witness ==
  /\ Collected
  /\ \E i, j \in DOMAIN repoData.codeFiles :
       i # j /\ repoData.codeFiles[i].path = repoData.codeFiles[j].path
  /\ \E i \in DOMAIN repoData.codeFiles :
       /\ repoData.codeFiles[i].priority = "high"
       /\ repoData.codeFiles[i].isDocumentation

(***************************************************************************)
(* C15: one request at a time.                                             *)
(***************************************************************************)
\* C15: at most one request to the source API is outstanding at any time: every
\* listing and content fetch is awaited before the next request is issued, and the
\* listings of sibling directories and the contents of sibling files are never
\* requested together.
C15_OneRequestOutstanding ==
  /\ [](Len(pending) <= 1)
  /\ [][Len(requests') > Len(requests) =>
          /\ Len(requests') = Len(requests) + 1
          /\ pending' \in {<<>>, <<requests'[Len(requests')]>>}
          /\ Len(pending) = 1 => pending' # pending \/ requests'[Len(requests')].kind = "file"]_vars

\* the walk is in a directory that has a sibling directory still to be listed, with
\* this directory's listing the only request outstanding
C15_Witness ==
  /\ pc = "content"
  /\ Len(stack) = 2
  /\ Top(stack).at = "fetch"
  /\ pending = <<Req("list", Top(stack).path)>>
  /\ \E k \in DOMAIN Contents(stack[1]) :
       /\ k > stack[1].i
       /\ Entry(stack[1], k).type = "dir"
       /\ toLowerCase(Entry(stack[1], k).name) \notin SKIP_DIRECTORIES

(***************************************************************************)
(* C16: invocations side by side.                                          *)
(***************************************************************************)
\* What an invocation returns when no other runs
RECURSIVE RunToEnd(_)
RunToEnd(walk) == IF walk.done THEN walk ELSE RunToEnd(Advance(walk))
Alone(path) == RunToEnd(Walk(path)).files

Loading == status \in {FETCHING_GITHUB, ANALYZING_GEMINI}

\* C17: on every finite tree, when every request is eventually answered, a started
\* run terminates: fetchRepoData returns or throws, and the App leaves the loading
\* statuses for COMPLETE or ERROR.
C17_StartedRunTerminates == Loading ~> status \in {COMPLETE, ERROR}

\* a run that walked into a directory and collected a file there has completed
C17_Witness ==
  /\ status = COMPLETE
  /\ pc = "idle"
  /\ \E k \in DOMAIN requests : requests[k].kind = "list" /\ requests[k].path # ""
  /\ \E k \in DOMAIN requests : requests[k].kind = "file"

(***************************************************************************)
(* C18: the depth of the display walk.                                     *)
(***************************************************************************)
\* The level of a line of the file structure: the number of '  ' before its name
RECURSIVE LineLevel(_)
LineLevel(line) ==
  IF StartsWith(line, "  ") THEN 1 + LineLevel(SubSeq(line, 3, Len(line))) ELSE 0

\* The level of a listing: 0 for the root, the number of its segments otherwise
PathLevel(path) == IF path = "" THEN 0 ELSE Len(Split(path, "/"))

\* The display walk has returned to fetchRepoData
StructureDone == pc = "content" /\ requests # <<>> /\ LastRequest = Req("list", "")

RECURSIVE HeldSize(_)
HeldSize(stk) == IF stk = <<>> THEN 0 ELSE Top(stk).totalSize + HeldSize(Pop(stk))

\* C19: at every point of the content walk the total declared size of the files
\* collected so far in the run, in this directory and the others, is at most 10 MiB.
C19_RunSizeWithinCeilingDuringWalk ==
  pc = "content" => HeldSize(stack) <= 10 * MiB

\* C20: at every point of the content walk every accumulator, the one a subdirectory's
\* files are merged back into included, holds at most 500 files.
C20_AccumulatorsWithinCountCeiling ==
  pc = "content" => \A k \in DOMAIN stack : Len(stack[k].files) <= 500

(***************************************************************************)
(* C21: after a ceiling has triggered.                                     *)
(***************************************************************************)
\* The step issues a file-content request
FetchesFile ==
  /\ Len(requests') = Len(requests) + 1
  /\ requests'[Len(requests')].kind = "file"

\* C21: once either ceiling has triggered during a walk (the count check stopped a
\* loop, or a file was skipped because it would push the total past 10 MiB), no
\* file content is requested for the rest of the traversal.
C21_NoFetchAfterCeiling ==
  [][ceilingHit /\ pc = "content" => ~FetchesFile]_vars


\* The file name of a path: its last segment
FileName(path) == LET parts == Split(path, "/") IN parts[Len(parts)]

\* The manifests and the build and infrastructure declarations the specification names
Manifests ==
  { "package.json", "requirements.txt", "pom.xml", "build.gradle", "cargo.toml",
    "go.mod", "gemfile", "composer.json" }
Declarations == {"dockerfile", ".env.example", ".gitignore", ".eslintrc", ".prettierrc"}

\* C22: every collected file whose file name is a recognized manifest or a build or
\* infrastructure declaration has priority high, in whatever directory it lies
\* (frontend/package.json, backend/Dockerfile).
C22_ManifestHighAnywhere ==
  Collected =>
    \A i \in 1..Len(repoData.codeFiles) :
      toLowerCase(FileName(repoData.codeFiles[i].path)) \in Manifests \cup Declarations
        => repoData.codeFiles[i].priority = "high"

(***************************************************************************)
(* C23: the order of the content walk.                                     *)
(***************************************************************************)
RECURSIVE Concat(_, _, _)
Concat(seqs, lo, hi) ==
  IF lo > hi THEN <<>>
  ELSE IF lo = hi THEN seqs[lo]
  ELSE LET mid == (lo + hi) \div 2
       IN Concat(seqs, lo, mid) \o Concat(seqs, mid + 1, hi)

\* The file entries at and below a directory in depth-first listing order: the
\* entries of its listing in order, each directory that is entered replaced by the
\* files at and below it
RECURSIVE DepthFirst(_)
DepthFirst(dirPath) ==
  LET node == Listing(dirPath)
      below == [k \in 1..Len(node.children) |->
                  LET e == node.children[k]
                      path == ItemPath(dirPath, e.name)
                  IN IF e.type = "file" THEN <<WithPath(e, path)>>
                     ELSE IF e.type = "dir" /\ toLowerCase(e.name) \notin SKIP_DIRECTORIES
                     THEN DepthFirst(path)
                     ELSE <<>>]
  IN IF Ok(node.status) THEN Concat(below, 1, Len(below)) ELSE <<>>

\* Is the sequence of files w in the order of the sequence o?  Every file of w has
\* its path in o, and of any two files of w the earlier one has a place in o before
\* a place of the later one (the same place if they have the same path).
InOrderOf(w, o) ==
  LET n == Len(w)
      places(i) == {k \in 1..Len(o) : o[k].path = w[i].path}
      first == SubSeq([i \in 1..n |-> IF places(i) = {} THEN Len(o) + 1
                                      ELSE MinOf(places(i))], 1, n)
      last == SubSeq([i \in 1..n |-> IF places(i) = {} THEN 0 ELSE MaxOf(places(i))], 1, n)
  IN \A i, j \in 1..n :
       i < j => /\ first[i] <= last[j]
                /\ w[i].path # w[j].path => first[i] < last[j]

\* A file the walk collects when no ceiling stops it
Admitted(e) == ~shouldSkipFile(e.path, e.size) /\ ~FetchFails(e)

\* The root call of the content walk has just returned
WalkReturned == pc = "commits"

\* C23: the array the walk returns, before the priority sort, is in depth-first
\* listing order: its files follow one another as the files of the tree taken
\* listing by listing, every file of the subtree of an entry before every file of the entries
\* after it.  The walk has no depth limit: when the files it admits are fewer than
\* the count ceiling and smaller in sum than the size ceiling, every one of them,
\* at whatever depth, is in the array.
C23_DepthFirstListingOrder ==
  WalkReturned =>
    LET order == DepthFirst("")
        admitted == SelectSeq(order, Admitted)
    IN /\ InOrderOf(walked, order)
       /\ Len(admitted) < MAX_FILES_TO_ANALYZE /\ TotalSize(admitted) < MAX_TOTAL_CODE_SIZE
            => walked = [k \in 1..Len(admitted) |->
                           CodeFile(admitted[k], Atob(admitted[k].content))]

\* the walk of the repository of DeepLevels nested directories returned the file of
\* each level in turn, the one below the innermost directory last
C23_Witness ==
  /\ WalkReturned
  /\ server.tree = DeepTree
  /\ Len(walked) = DeepLevels + 1
  /\ walked[1].path = "f1.ts"
  /\ walked[2].path = "d1/f2.ts"
  /\ PathLevel(walked[Len(walked)].path) = DeepLevels + 1

(***************************************************************************)
(* C25-C28: the state of the App component.                                *)
(***************************************************************************)
\* C25: in COMPLETE the repository data and the analysis are there and there is no
\* error; in IDLE there is neither repository data nor analysis.
C25_StatusAndData ==
  /\ status = COMPLETE => repoData # NULL /\ analysis # NULL /\ error = NULL
  /\ status = IDLE => repoData = NULL /\ analysis = NULL

\* an analysis has completed: the data of the repository and the analysis are held
C25_Witness ==
  /\ status = COMPLETE
  /\ repoData # NULL /\ repoData.codeFiles # <<>>
  /\ analysis # NULL

\* C26: whenever the component holds an error the status is ERROR, the only status
\* in which the message is rendered: every error that is set is shown.
C26_ErrorIsShown ==
  error # NULL => status = ERROR

\* A call of handleAnalyze has passed its first await and has not settled
InFlight == pc # "idle"

\* The step is a call of handleAnalyze: it rejects the URL or issues the first request
StartsAnalysis ==
  \/ requests' = <<Req("meta", "")>> /\ pc' = "meta" /\ pc # "meta"
  \/ /\ error' = Message("Invalid GitHub URL. Please use format: https://github.com/owner/repo")
     /\ UNCHANGED pc
     /\ requests' = <<>>

\* The step is a call of handleReset
Resets == status # IDLE /\ status' = IDLE

\* C27: an analysis starts only in IDLE and a reset happens only in COMPLETE or
\* ERROR; while a call of handleAnalyze is in flight the status is one of the two
\* loading statuses, so no second call starts and no reset happens before it settles.
C27_OneAnalysisNoResetInFlight ==
  [][ /\ InFlight => status \in {FETCHING_GITHUB, ANALYZING_GEMINI}
      /\ StartsAnalysis => status = IDLE /\ ~InFlight
      /\ Resets => status \in {COMPLETE, ERROR} /\ ~InFlight ]_vars

\* a reset was made after an analysis that issued requests: nothing is in flight
C27_Witness ==
  /\ status = IDLE
  /\ requests # <<>>
  /\ walked # <<>>
  /\ ~InFlight
  /\ repoData = NULL

\* The changes of status the component makes
StatusChanges ==
  { <<IDLE, FETCHING_GITHUB>>, <<FETCHING_GITHUB, IDLE>>,
    <<FETCHING_GITHUB, ANALYZING_GEMINI>>, <<FETCHING_GITHUB, ERROR>>,
    <<ANALYZING_GEMINI, COMPLETE>>, <<ANALYZING_GEMINI, ERROR>>,
    <<COMPLETE, IDLE>>, <<ERROR, IDLE>> }

\* C28: the status changes only from IDLE to FETCHING_GITHUB, from FETCHING_GITHUB
\* to IDLE, ANALYZING_GEMINI or ERROR, from ANALYZING_GEMINI to COMPLETE or ERROR,
\* and from COMPLETE or ERROR to IDLE; ANALYZING_GEMINI is entered with the
\* repository data set and COMPLETE with the analysis set.
C28_StatusTransitions ==
  [][ /\ status' # status => <<status, status'>> \in StatusChanges
      /\ status' = ANALYZING_GEMINI => repoData' # NULL
      /\ status' = COMPLETE => analysis' # NULL ]_vars

\* a run went from FETCHING_GITHUB to ANALYZING_GEMINI with the repository data
\* stored, and from there to ERROR
C28_Witness ==
  /\ status = ERROR
  /\ repoData # NULL
  /\ server.gemini = "error"

(***************************************************************************)
(* C29: files with empty content.                                          *)
(***************************************************************************)
\* The files every call of the walk holds, and those of the result
HeldFiles ==
  UNION ( {Range(stack[d].files) : d \in DOMAIN stack} \cup {Range(walked)}
          \cup {IF repoData = NULL THEN {} ELSE Range(repoData.codeFiles)} )

\* The step fetches the content of a file whose content is empty
FetchesEmptyFile ==
  /\ pc = "content" /\ stack # <<>>
  /\ FetchesFile
  /\ Entry(Top(stack), Top(stack).i).content.len = 0

\* C29: a file whose fetched content is empty is never in the collected result: no
\* file held by the walk or by the result has empty content, and the step that
\* fetches such a file leaves the files and the running size of the call as they
\* were, so that it counts toward neither ceiling.
C29_EmptyContentDropped ==
  /\ [](\A file \in HeldFiles : file.content # 0)
  /\ [][FetchesEmptyFile =>
          /\ Top(stack').files = Top(stack).files
          /\ Top(stack').totalSize = Top(stack).totalSize
          /\ Top(stack').i = Top(stack).i + 1]_vars

\* the content of empty.txt was requested, and the result holds other files and not
\* that one
C29_Witness ==
  /\ Collected
  /\ \E k \in DOMAIN requests : requests[k] = Req("file", "empty.txt")
  /\ repoData.codeFiles # <<>>
  /\ \A i \in DOMAIN repoData.codeFiles : repoData.codeFiles[i].path # "empty.txt"

(***************************************************************************)
(* C24, C30: the code block of the prompt.                                 *)
(***************************************************************************)
\* analyzeRepository has built the prompt of the collected files
Prompted == Collected /\ server.gemini # "nokey"

\* C24: whenever the collected files include a test file, a test file is in the code
\* block, and whenever they include a config file, a config file is in the code
\* block.
C24_RolesRepresented ==
  Prompted =>
    /\ (\E f \in Range(repoData.codeFiles) : f.isTest)
         => \E sec \in Range(codeContentForAnalysis) : sec.file.isTest
    /\ (\E f \in Range(repoData.codeFiles) : f.isConfig)
         => \E sec \in Range(codeContentForAnalysis) : sec.file.isConfig

RECURSIVE SumChars(_, _, _)
SumChars(sections, lo, hi) ==
  IF lo > hi THEN 0
  ELSE IF lo = hi THEN sections[lo].chars
  ELSE LET mid == (lo + hi) \div 2
       IN SumChars(sections, lo, mid) + SumChars(sections, mid + 1, hi)

\* C30: the code block is capped.  Its sections are of files of different paths;
\* each shows at most 2000 characters of content and the marker, and no more than
\* the file has; they stand in the order of the selection (high, medium, config,
\* test), each path at the place of its first selection; when a selected file is
\* left out, the first such file is one whose section would take the block past
\* 150000 characters, and no file selected after it is in the block; and the
\* lengths of the sections sum to 150000 at most.
C30_CodeBlockCapped ==
  Prompted =>
    LET block == codeContentForAnalysis
        n == Len(block)
        selected == selectedFiles(repoData.codeFiles)
        place == SubSeq([i \in 1..n |->
                           MinOf({k \in 1..Len(selected) :
                                    selected[k].path = block[i].file.path} \cup {Len(selected) + 1})],
                        1, n)
        left == {k \in 1..Len(selected) :
                   \A i \in 1..n : block[i].file.path # selected[k].path}
        total == SumChars(block, 1, n)
    IN /\ \A i, j \in 1..n : i < j => block[i].file.path # block[j].file.path
       /\ \A i \in 1..n :
            /\ block[i].content <= contentChars + Len("\n... [truncated]")
            /\ block[i].content <= block[i].file.content \/ block[i].file.content > contentChars
            /\ block[i].chars > block[i].content
            /\ place[i] <= Len(selected)
       /\ \A i, j \in 1..n : i < j => place[i] < place[j]
       /\ left # {} =>
            /\ total + fileSection(selected[MinOf(left)]).chars > maxChars
            /\ \A i \in 1..n : place[i] < MinOf(left)
       /\ total <= maxChars

\* the selection held more than the block could take: the block ends before the
\* selection does, within 2000 characters of the cap, and holds truncated files
C30_Witness ==
  /\ Prompted
  /\ server.tree = PromptTree
  /\ Len(codeContentForAnalysis) > 50
  /\ Len(codeContentForAnalysis) < Len(uniqueFiles(repoData.codeFiles))
  /\ SumChars(codeContentForAnalysis, 1, Len(codeContentForAnalysis)) > maxChars - 3 * KB
  /\ \E sec \in Range(codeContentForAnalysis) : sec.file.content > sec.content

====
